---- MODULE Spec2Model ----
(***************************************************************************)
(* A model of AliceJobSeeker (PhoenixMystique/AliceAi): the listing        *)
(* extractor, the preference classifier, the per-job application flow,     *)
(* the batch loop and the session orchestrator.                            *)
(*                                                                         *)
(* The module holds several specifications over one set of variables:      *)
(*   SpecExtract  one call of extract_job_links, strategy by strategy      *)
(*   SpecPref     job_matches_preferences' parsing of one model reply      *)
(*   SpecBatch    process_job_batch with process_job in full               *)
(*   Spec         main()'s loop, process_job summarised by its result      *)
(*   SpecDefault  one call of get_default_answer                           *)
(*   SpecAnswer   one call of get_safe_response                            *)
(*   SpecRadio    one call of handle_radio_buttons                         *)
(*   SpecText     one call of handle_text_input, round by round            *)
(*   SpecCalls    one call of process_job, or one of handle_text_input     *)
(*   SpecStuck    the fingerprints refresh_job_listings records            *)
(*   SpecRounds   main()'s loop with the jobs unnamed, up to page 20        *)
(*   SpecSafeOp   one call of safe_browser_operation                       *)
(*   SpecSessions the browser sessions over main()'s iterations            *)
(*   SpecJobLog   calls of save_job_log across process restarts            *)
(*   SpecProcessed  the processed-jobs file across runs and failed writes  *)
(*   SpecStartup  the start of the process up to main()'s loop             *)
(*   SpecChat     calls of bard_flash_response on the chat session         *)
(*   SpecPending  main()'s loop with the URLs named, the batch summarised  *)
(*   SpecPageUrl  the URL refresh_job_listings navigates to                *)
(*   SpecLock     main's accesses to the processed set and its lock        *)
(* A specification leaves the variables of the other parts at rest.        *)
(***************************************************************************)
EXTENDS Integers, Sequences, FiniteSets, TLC

VARIABLES
    \* ---- extract_job_links (src/job_processor.py:17-177)
    ex_pc,              \* "off" | "primary" | "alt" | "direct" | "report" | "done" | "raised"
    job_links,          \* the list being built and returned
    initial_count,      \* len(job_links) on entry
    sel_idx,            \* index into selectors of the next alternative to try
    tried,              \* history: the strategies tried, in order
    counts,             \* history: len(job_links) after each strategy tried
    screenshot_taken,   \* driver.save_screenshot was called
    dup_offered,        \* history: a query offered a URL the list already held
    \* ---- job_matches_preferences (src/job_processor.py:658-715)
    pm_pc,              \* "off" | "call" | "done"
    response,           \* the model's reply text, a sequence of characters
    match_decision,
    match_reason,
    \* ---- process_job (src/job_processor.py:1151-1311)
    j_pc,               \* the place of the call, "none" when no call is active
    job_error_count,
    question_attempts,
    j_result,           \* the value returned
    j_records,          \* the records this call appended to the applications log
    job_log_ok,         \* environment: the applications log file can be written
    hist,               \* history of the call (see NoHistory)
    \* ---- process_job_batch (src/main.py:72-131) and the processed set
    b_pc,               \* "off" | "loop" | "job" | "returned"
    batch_links,        \* the caller's job_links list
    job_batch,
    batch_i,            \* index in job_batch of the job at hand
    batch_success,      \* successful_applications of the batch
    batch_failed,       \* failed_applications of the batch
    processed_jobs,
    max_applications,   \* config["max_applications"]
    classifier_always_no, \* environment: the classifier answers "no" to every job
    pref_log,           \* the preference-match records written
    batch_hist,         \* history of the batches (see NoBatchHistory)
    \* ---- main (src/main.py:365-640)
    m_pc,               \* "off" | "head" | "in_batch" | "fetch" | "stuck" | "done" | "crashed"
    unprocessed_jobs,
    successful_applications,
    failed_applications,
    refresh_count,
    current_page,
    stuck_count,
    browser_reset_count,
    recent_job_batches, \* the fingerprints of the last listings fetched
    has_experience_param, \* "experience=" in config["job_search_url"]
    config_max_retries, \* config["max_retries"]
    \* ---- get_safe_response, get_default_answer (src/job_processor.py:717-760)
    a_pc,               \* "off" | "default" | "safe" | "done"
    a_question,         \* the question text, a sequence of words
    a_outcome,          \* what bard_flash_response did on the call
    a_answer,           \* the answer returned
    \* ---- handle_radio_buttons (src/job_processor.py:762-819)
    r_pc,               \* "off" | "call" | "done"
    r_options,          \* len(radio_buttons)
    r_reply,            \* the model's reply text, a sequence of characters
    r_clicked,          \* the number of the option clicked, 0 when none
    r_result,           \* the value returned
    \* ---- handle_text_input (src/job_processor.py:821-1111)
    t_pc,               \* "off" | "loop" | "question" | "answer" | "fill" | "done" | "raised"
    question_count,
    in_qa_sequence,
    t_question,         \* last_question_text of the round
    t_result,           \* the value returned
    t_hist,             \* history of the call (see NoTextHistory)
    \* ---- the fetches refresh_job_listings recorded
    fetch_hist,         \* history: the fingerprints of all fetches that were not empty
    \* ---- main's loop with the jobs unnamed (src/main.py:472-627)
    pending,            \* len(unprocessed_jobs)
    round_hist,         \* history of the loop (see NoRoundHistory)
    \* ---- safe_browser_operation (src/main.py:142-193)
    so_pc,              \* "off" | "probe" | "run" | "returned" | "raised"
    retry_count,
    so_session,         \* the session behind the local driver: "valid" | "invalid"
    so_recovery_url,    \* 'recovery_url' in kwargs
    so_result,          \* the value returned, "none" before
    so_log,             \* history: what the call did, in order
    \* ---- the browser sessions of a run (src/main.py:195-351, 472-627)
    ss_pc,              \* "off" | "head" | "batch" | "navigate" | "extract" | "stuck"
    sessions,           \* session number -> "none" | "live" | "dead" | "quit"
    main_driver,        \* the session main's driver names
    local_driver,       \* the session refresh_job_listings' driver names, 0 outside a call
    ss_hist,            \* history of the sessions (see NoSessionHistory)
    \* ---- save_job_log (src/logger.py:41-86)
    jl_file,            \* job_applications_log.json (see NoLogFile)
    jl_written,         \* history: the records save_job_log was called with, in order
    jl_run,             \* the number of the process run, 0 when at rest
    \* ---- the processed-jobs file (src/main.py:35-70, 410, 630)
    pj_pc,              \* "off" | "start" | "run" | "ended" | "crashed"
    pj_file,            \* logs/processed_jobs.json (see NoProcessedFile)
    pj_set,             \* the global processed_jobs of the running process
    pj_next,            \* the next URL that has not been seen
    pj_hist,            \* history of the file (see NoProcessedHistory)
    \* ---- the start of the process (src/gemini_api.py:18-40, src/main.py:365-456)
    st_pc,              \* "off" | "import" | "config" | "resume" | "browser" |
                        \* "navigate" | "extract" | "loop" | "exited" | "returned"
    st_config,          \* customization.json (see NoConfigFile)
    st_env_key,         \* GEMINI_API_KEY is set in the environment
    st_sessions,        \* browser sessions started so far
    st_log,             \* history: the messages printed, in order
    \* ---- bard_flash_response (src/gemini_api.py:78-183)
    c_pc,               \* "off" | "idle" | "attempt"
    chat_session,       \* the global chat session (see NoChat)
    c_kind,             \* the prompt of the call: "none" | "classification" | "question"
    bard_retry_count,   \* retry_count of the call
    c_hist,             \* history of the calls (see NoChatHistory)
    \* main's loop with the URLs named (SpecPending)
    u_pc,               \* where main stands
    u_config,           \* max_applications, max_retries, "experience=" in the URL
    u_unprocessed,      \* unprocessed_jobs
    u_processed,        \* processed_jobs
    u_successful,       \* successful_applications
    u_page,             \* current_page
    u_stuck_count,      \* stuck_count
    u_refresh_count,    \* refresh_count
    u_hist,             \* history: what the mutated searches found, process_job's calls
    \* refresh_job_listings' URL (SpecPageUrl)
    n_pc,               \* "idle" | "navigated"
    main_url,           \* config["job_search_url"], a sequence of characters
    page_number,        \* the page asked for at the last call; 0 is None
    navigated_url,      \* the URL the last call navigated to
    \* the lock of the processed set (SpecLock)
    k_pc,               \* where main stands
    k_lock,             \* who holds processed_jobs_lock: "none" | "main"
    k_set,              \* processed_jobs
    k_file,             \* logs/processed_jobs.json
    k_next,             \* the next URL that is new
    k_hist              \* history: the accesses made, each with the lock held or not

extractVars == <<ex_pc, job_links, initial_count, sel_idx, tried, counts,
                 screenshot_taken, dup_offered>>
prefVars    == <<pm_pc, response, match_decision, match_reason>>
jobVars     == <<j_pc, job_error_count, question_attempts, j_result, j_records,
                 job_log_ok, hist>>
batchVars   == <<b_pc, batch_links, job_batch, batch_i, batch_success, batch_failed,
                 processed_jobs, max_applications, classifier_always_no, pref_log,
                 batch_hist>>
mainVars    == <<m_pc, unprocessed_jobs, successful_applications, failed_applications,
                 refresh_count, current_page, stuck_count, browser_reset_count,
                 recent_job_batches, has_experience_param, config_max_retries>>
answerVars  == <<a_pc, a_question, a_outcome, a_answer>>
radioVars   == <<r_pc, r_options, r_reply, r_clicked, r_result>>
textVars    == <<t_pc, question_count, in_qa_sequence, t_question, t_result, t_hist>>
roundVars   == <<pending, round_hist>>
safeVars    == <<so_pc, retry_count, so_session, so_recovery_url, so_result, so_log>>
restVars    == <<extractVars, prefVars, jobVars, batchVars, mainVars, answerVars,
                 radioVars, textVars, fetch_hist>>
sessVars    == <<ss_pc, sessions, main_driver, local_driver, ss_hist>>
logVars     == <<jl_file, jl_written, jl_run>>
fileVars    == <<pj_pc, pj_file, pj_set, pj_next, pj_hist>>
startVars   == <<st_pc, st_config, st_env_key, st_sessions, st_log>>
chatVars    == <<c_pc, chat_session, c_kind, bard_retry_count, c_hist>>
pendVars    == <<u_pc, u_config, u_unprocessed, u_processed, u_successful, u_page,
                 u_stuck_count, u_refresh_count, u_hist>>
urlVars     == <<n_pc, main_url, page_number, navigated_url>>
lockVars    == <<k_pc, k_lock, k_set, k_file, k_next, k_hist>>
quietVars   == <<safeVars, sessVars, logVars, fileVars, startVars, chatVars, pendVars, urlVars, lockVars>>
serviceVars == <<roundVars, quietVars>>
handlerVars == <<answerVars, radioVars, textVars, fetch_hist, serviceVars>>
vars        == <<extractVars, prefVars, jobVars, batchVars, mainVars, handlerVars>>

(***************************************************************************)
(* The parts at rest                                                       *)
(***************************************************************************)
ExtractIdle ==
    /\ ex_pc = "off"
    /\ job_links = <<>>
    /\ initial_count = 0
    /\ sel_idx = 1
    /\ tried = <<>>
    /\ counts = <<>>
    /\ screenshot_taken = FALSE
    /\ dup_offered = FALSE

PrefIdle ==
    /\ pm_pc = "off"
    /\ response = <<>>
    /\ match_decision = FALSE
    /\ match_reason = <<>>

\* What a call of process_job has done so far.
NoHistory ==
    [ external            |-> FALSE,   \* the company-site branch was taken
      already_clear       |-> FALSE,   \* the already-applied check ran and found nothing
      already_found       |-> FALSE,   \* the already-applied check found an indicator
      classifier_attempts |-> 0,       \* requests made to the preference model
      classifier_failures |-> 0,       \* requests to the preference model that raised
      pref_outcome        |-> "none",  \* job_matches_preferences: "true" | "false" | "raised"
      apply_attempted     |-> FALSE,   \* the direct-apply attempt ran
      apply_clicked       |-> FALSE,   \* the Apply control was clicked
      handler_called      |-> FALSE,   \* handle_radio_buttons or handle_text_input ran
      question_answered   |-> FALSE,   \* a radio-button question was answered and saved
      site_clicked        |-> FALSE ]  \* the company-site control was clicked

JobIdle ==
    /\ j_pc = "none"
    /\ job_error_count = 0
    /\ question_attempts = 0
    /\ j_result = FALSE
    /\ j_records = <<>>
    /\ job_log_ok = TRUE
    /\ hist = NoHistory

\* What a call of process_job_batch has met so far.
NoBatchHistory ==
    [ len0       |-> 0,       \* len(job_links) on entry
      plain      |-> TRUE,    \* every job so far was navigated to and reached the
                              \* preference check with job data, and was logged
      calls      |-> <<>>,    \* the URLs process_job was called with, in order
      stale_call |-> FALSE ]  \* process_job was called with a URL of processed_jobs

BatchIdle ==
    /\ b_pc = "off"
    /\ batch_links = <<>>
    /\ job_batch = <<>>
    /\ batch_i = 1
    /\ batch_success = 0
    /\ batch_failed = 0
    /\ processed_jobs = {}
    /\ max_applications = 1
    /\ classifier_always_no = FALSE
    /\ pref_log = <<>>
    /\ batch_hist = NoBatchHistory

MainIdle ==
    /\ m_pc = "off"
    /\ unprocessed_jobs = <<>>
    /\ successful_applications = 0
    /\ failed_applications = 0
    /\ refresh_count = 0
    /\ current_page = 1
    /\ stuck_count = 0
    /\ browser_reset_count = 0
    /\ recent_job_batches = <<>>
    /\ has_experience_param = FALSE
    /\ config_max_retries = 0

\* No call of bard_flash_response was made.
NoOutcome == [attempts |-> 0, failures |-> 0, raised |-> FALSE, text |-> <<>>]

AnswerIdle ==
    /\ a_pc = "off"
    /\ a_question = <<>>
    /\ a_outcome = NoOutcome
    /\ a_answer = <<>>

RadioIdle ==
    /\ r_pc = "off"
    /\ r_options = 0
    /\ r_reply = <<>>
    /\ r_clicked = 0
    /\ r_result = FALSE

\* What a call of handle_text_input has done so far.
NoTextHistory ==
    [ submitted       |-> FALSE,   \* some round filled an answer in and sent it
      indicator_seen  |-> FALSE,   \* a success indicator was seen
      model_called    |-> FALSE,   \* this round: bard_flash_response was called
      response        |-> <<>>,    \* this round: what get_safe_response returned
      typed           |-> <<>>,    \* this round: what went into the ordinary input field
      dob_filled      |-> FALSE,   \* this round: the date control was filled
      record          |-> "" ]     \* application_method of the record written

TextIdle ==
    /\ t_pc = "off"
    /\ question_count = 0
    /\ in_qa_sequence = TRUE
    /\ t_question = <<>>
    /\ t_result = FALSE
    /\ t_hist = NoTextHistory

\* What main's loop has done so far.
NoRoundHistory ==
    [ since_refresh  |-> -1,      \* batches run since the last periodic refresh
                                  \* with jobs pending all the while, -1: none yet
      gap            |-> -1,      \* since_refresh at the last periodic refresh
      last_page      |-> 0,       \* page_number of the last refresh_job_listings call
      mutation_empty |-> FALSE ]  \* a search with another experience value found no job

RoundIdle ==
    /\ pending = 0
    /\ round_hist = NoRoundHistory

SafeIdle ==
    /\ so_pc = "off"
    /\ retry_count = 0
    /\ so_session = "valid"
    /\ so_recovery_url = FALSE
    /\ so_result = "none"
    /\ so_log = <<>>

\* What has happened to the sessions of a run so far.
NoSessionHistory ==
    [ created_over |-> FALSE,   \* a session was created while the driver it replaces
                                \* named a session that was not quit
      stale_use    |-> FALSE ]  \* main called the browser through a driver that does
                                \* not name the session created last

SessIdle ==
    /\ ss_pc = "off"
    /\ sessions = <<>>
    /\ main_driver = 0
    /\ local_driver = 0
    /\ ss_hist = NoSessionHistory

\* The log file before the first call: kind is "absent", "json" or "corrupt",
\* the lists are those of a file of kind "json".
NoLogFile == [ kind |-> "absent", applications |-> <<>>, error_logs |-> <<>> ]

LogIdle ==
    /\ jl_file = NoLogFile
    /\ jl_written = <<>>
    /\ jl_run = 0

\* The processed-jobs file before the first run: kind is "absent", "json" or
\* "corrupt" (cut short, no valid JSON); urls is the list of a file of kind "json".
NoProcessedFile == [ kind |-> "absent", urls |-> {} ]

\* What has happened to the processed-jobs file so far.
NoProcessedHistory ==
    [ inserted    |-> {},      \* the URLs mark_job_processed inserted in this run
      after_crash |-> FALSE,   \* the run before this one died while writing the file
      old         |-> {},      \* what the file held before that write
      new         |-> {} ]     \* what that write was writing

FileIdle ==
    /\ pj_pc = "off"
    /\ pj_file = NoProcessedFile
    /\ pj_set = {}
    /\ pj_next = 1
    /\ pj_hist = NoProcessedHistory

\* customization.json: readable says that it can be opened and parsed, the
\* other fields which keys it holds.
NoConfigFile == [ readable |-> FALSE, gemini_api_key |-> FALSE, job_search_url |-> FALSE ]

StartIdle ==
    /\ st_pc = "off"
    /\ st_config = NoConfigFile
    /\ st_env_key = FALSE
    /\ st_sessions = 0
    /\ st_log = <<>>

\* chat_session = None; in a live session exchanges counts the questions sent
\* and answered after the four opening messages.
NoChat == [ live |-> FALSE, exchanges |-> 0 ]

\* What the calls of bard_flash_response have done so far.
NoChatHistory ==
    [ before   |-> NoChat,    \* chat_session when the last call began
      kind     |-> "none",    \* the prompt of the last call that has returned
      answered |-> "none",    \* how it was answered: "chat" | "direct" |
                              \* "classifier" | "default" | "empty"
      failures |-> 0,         \* attempts of that call that raised
      requests |-> 0,         \* requests the last call has made to a model
      result   |-> "none",    \* what it returned: "reply", the text of the
                              \* model's reply, or the text itself
      options  |-> FALSE ]    \* the text of its last error held
                              \* "multiple_choice" or "options"

ChatIdle ==
    /\ c_pc = "off"
    /\ chat_session = NoChat
    /\ c_kind = "none"
    /\ bard_retry_count = 0
    /\ c_hist = NoChatHistory

NoPendingHistory ==
    [ found |-> {},     \* the unprocessed URLs the mutated searches returned
      calls |-> {} ]    \* the URLs process_job was called with

PendIdle ==
    /\ u_pc = "off"
    /\ u_config = [max_applications |-> 1, max_retries |-> 0, experience |-> FALSE]
    /\ u_unprocessed = <<>>
    /\ u_processed = {}
    /\ u_successful = 0
    /\ u_page = 1
    /\ u_stuck_count = 0
    /\ u_refresh_count = 0
    /\ u_hist = NoPendingHistory

UrlIdle ==
    /\ n_pc = "off"
    /\ main_url = <<>>
    /\ page_number = 0
    /\ navigated_url = <<>>

LockIdle ==
    /\ k_pc = "off"
    /\ k_lock = "none"
    /\ k_set = {}
    /\ k_file = NoProcessedFile
    /\ k_next = 1
    /\ k_hist = {}

ServiceIdle == RoundIdle /\ SafeIdle /\ SessIdle /\ LogIdle /\ FileIdle /\ StartIdle /\ ChatIdle /\ PendIdle /\ UrlIdle /\ LockIdle

HandlerIdle == AnswerIdle /\ RadioIdle /\ TextIdle /\ fetch_hist = <<>> /\ ServiceIdle

(***************************************************************************)
(* Sequences                                                               *)
(***************************************************************************)
Range(s) == { s[i] : i \in DOMAIN s }

NoDuplicates(s) == \A i, j \in DOMAIN s : i # j => s[i] # s[j]

\* The sequences over S of length at most n.
SeqsUpTo(S, n) == UNION { [1..k -> S] : k \in 0..n }

(***************************************************************************)
(* URLs.  A URL is the sequence of its path segments; an absent href       *)
(* (None or "") is the empty sequence.                                     *)
(***************************************************************************)
NoHref == <<>>
JobA   == <<"job-listings", "a">>
JobB   == <<"job-listings", "b">>
JobC   == <<"job-listings", "c">>
Other  == <<"companies", "x">>

\* "/job-listings" in job_url
HasMarker(u) == \E i \in DOMAIN u : u[i] = "job-listings"

(***************************************************************************)
(* Bounds                                                                  *)
(***************************************************************************)
MaxElems    == 2    \* elements one selector query returns
MaxExisting == 2    \* length of existing_links handed to extract_job_links

Hrefs        == {NoHref, JobA, JobB, Other}
ExistingUrls == {JobA, JobB, Other}

(***************************************************************************)
(* extract_job_links                                                       *)
(*                                                                         *)
(* Each strategy is one step; what its query finds on the page is the      *)
(* environment's choice at that step (the page loads dynamically).  The    *)
(* hrefs of the links found are one flat list in DOM order: the nested     *)
(* loops over cards and their links visit them in that order, and a card   *)
(* whose processing raises contributes a shorter list.                     *)
(***************************************************************************)
selectors == <<"article.jobTuple", ".jobTitle", ".title", "a[href*='/job-listings']">>

StrategyOrder == <<"div[data-job-id]">> \o selectors \o <<"all_links">>

\* A mutant of AddMarked: the membership test "job_url not in job_links" is lost.
RECURSIVE AddMarkedNoMembership(_, _)
AddMarkedNoMembership(links, hrefs) ==
    IF hrefs = <<>> THEN links
    ELSE AddMarkedNoMembership(
            IF Head(hrefs) # NoHref /\ HasMarker(Head(hrefs))
            THEN Append(links, Head(hrefs)) ELSE links,
            Tail(hrefs))

\* for link in ...: if job_url and "/job-listings" in job_url and job_url not in job_links: append
RECURSIVE AddMarked(_, _)
AddMarked(links, hrefs) ==
    IF hrefs = <<>> THEN links
    ELSE AddMarked(
            IF /\ Head(hrefs) # NoHref
               /\ HasMarker(Head(hrefs))
               /\ Head(hrefs) \notin Range(links)
            THEN Append(links, Head(hrefs)) ELSE links,
            Tail(hrefs))

\* for element in elements (.jobTitle, .title): the href of the ancestor link:
\* if job_url and job_url not in job_links: append
RECURSIVE AddFromTitle(_, _)
AddFromTitle(links, hrefs) ==
    IF hrefs = <<>> THEN links
    ELSE AddFromTitle(
            IF Head(hrefs) # NoHref /\ Head(hrefs) \notin Range(links)
            THEN Append(links, Head(hrefs)) ELSE links,
            Tail(hrefs))

\* What one alternative selector adds, by the branch of the code it takes.
AddBySelector(sel, links, hrefs) ==
    IF sel \in {".jobTitle", ".title", "a[href*='/job-listings']"}
    THEN IF sel = "a[href*='/job-listings']"      \* selector.startswith("a")
         THEN AddMarked(links, hrefs)
         ELSE AddFromTitle(links, hrefs)
    ELSE AddMarked(links, hrefs)

\* What the query of an alternative selector can find: the CSS selector
\* a[href*='/job-listings'] matches only links whose href holds the marker.
Found(sel) ==
    IF sel = "a[href*='/job-listings']"
    THEN SeqsUpTo({h \in Hrefs : HasMarker(h)}, MaxElems)
    ELSE SeqsUpTo(Hrefs, MaxElems)

Offered(links, hrefs) ==
    \/ \E i \in DOMAIN hrefs : hrefs[i] \in Range(links)
    \/ \E i, j \in DOMAIN hrefs : i # j /\ hrefs[i] = hrefs[j] /\ hrefs[i] # NoHref

\* A mutant of AfterSelector: the break out of the selector loop is lost.
AfterSelectorNoBreak(links, init, i) ==
    IF i < Len(selectors) THEN [pc |-> "alt", idx |-> i + 1]
    ELSE [pc |-> "direct", idx |-> i]

\* The end of one round of "for selector in selectors": break when the list grew.
AfterSelector(links, init, i) ==
    IF Len(links) > init THEN [pc |-> "direct", idx |-> i]
    ELSE IF i < Len(selectors) THEN [pc |-> "alt", idx |-> i + 1]
    ELSE [pc |-> "direct", idx |-> i]

\* if len(job_links) == initial_count: try the alternative selectors
AfterPrimary(links, init) == IF Len(links) = init THEN "alt" ELSE "direct"

\* extract_job_links(driver, config, page, existing_links): lines 21-26
ExtractCall ==
    /\ ex_pc = "off"
    /\ \E existing \in {s \in SeqsUpTo(ExistingUrls, MaxExisting) : NoDuplicates(s)} :
          /\ job_links' = existing
          /\ initial_count' = Len(existing)
    /\ ex_pc' = "primary"
    /\ UNCHANGED <<sel_idx, tried, counts, screenshot_taken, dup_offered>>
    /\ UNCHANGED <<prefVars, jobVars, batchVars>>
    /\ UNCHANGED mainVars
    /\ UNCHANGED handlerVars

\* line 29: the splash-screen probe is outside every try; a driver error leaves the call
ExtractRaise ==
    /\ ex_pc = "primary"
    /\ ex_pc' = "raised"
    /\ UNCHANGED <<job_links, initial_count, sel_idx, tried, counts,
                   screenshot_taken, dup_offered>>
    /\ UNCHANGED <<prefVars, jobVars, batchVars>>
    /\ UNCHANGED mainVars
    /\ UNCHANGED handlerVars

\* lines 46-68: the div[data-job-id] cards
TryPrimary ==
    /\ ex_pc = "primary"
    /\ \E hrefs \in SeqsUpTo(Hrefs, MaxElems) :
          /\ job_links' = AddMarked(job_links, hrefs)
          /\ dup_offered' = (dup_offered \/ Offered(job_links, hrefs))
    /\ tried' = Append(tried, "div[data-job-id]")
    /\ counts' = Append(counts, Len(job_links'))
    /\ ex_pc' = AfterPrimary(job_links', initial_count)
    /\ sel_idx' = 1
    /\ UNCHANGED <<initial_count, screenshot_taken>>
    /\ UNCHANGED <<prefVars, jobVars, batchVars>>
    /\ UNCHANGED mainVars
    /\ UNCHANGED handlerVars

\* lines 83-128: one round of the loop over the alternative selectors
TryAlternative ==
    /\ ex_pc = "alt"
    /\ \E hrefs \in Found(selectors[sel_idx]) :
          /\ job_links' = AddBySelector(selectors[sel_idx], job_links, hrefs)
          /\ dup_offered' = (dup_offered \/ Offered(job_links, hrefs))
    /\ tried' = Append(tried, selectors[sel_idx])
    /\ counts' = Append(counts, Len(job_links'))
    /\ LET nx == AfterSelector(job_links', initial_count, sel_idx)
       IN  ex_pc' = nx.pc /\ sel_idx' = nx.idx
    /\ UNCHANGED <<initial_count, screenshot_taken>>
    /\ UNCHANGED <<prefVars, jobVars, batchVars>>
    /\ UNCHANGED mainVars
    /\ UNCHANGED handlerVars

\* lines 131-155: every link of the page, when nothing was added so far
TryAllLinks ==
    /\ ex_pc = "direct"
    /\ Len(job_links) = initial_count
    /\ \E hrefs \in SeqsUpTo(Hrefs, MaxElems) :
          /\ job_links' = AddMarked(job_links, hrefs)
          /\ dup_offered' = (dup_offered \/ Offered(job_links, hrefs))
    /\ tried' = Append(tried, "all_links")
    /\ counts' = Append(counts, Len(job_links'))
    /\ ex_pc' = "report"
    /\ UNCHANGED <<initial_count, sel_idx, screenshot_taken>>
    /\ UNCHANGED <<prefVars, jobVars, batchVars>>
    /\ UNCHANGED mainVars
    /\ UNCHANGED handlerVars

\* line 131 is false: the list grew, the fallback is skipped
SkipAllLinks ==
    /\ ex_pc = "direct"
    /\ Len(job_links) # initial_count
    /\ ex_pc' = "report"
    /\ UNCHANGED <<job_links, initial_count, sel_idx, tried, counts,
                   screenshot_taken, dup_offered>>
    /\ UNCHANGED <<prefVars, jobVars, batchVars>>
    /\ UNCHANGED mainVars
    /\ UNCHANGED handlerVars

\* line 162: if len(job_links) == initial_count
ScreenshotWanted(links, init) == Len(links) = init

\* lines 157-177: the report, the diagnostic screenshot, the return
ExtractReturn ==
    /\ ex_pc = "report"
    /\ screenshot_taken' = ScreenshotWanted(job_links, initial_count)
    /\ ex_pc' = "done"
    /\ UNCHANGED <<job_links, initial_count, sel_idx, tried, counts, dup_offered>>
    /\ UNCHANGED <<prefVars, jobVars, batchVars>>
    /\ UNCHANGED mainVars
    /\ UNCHANGED handlerVars

InitExtract == ExtractIdle /\ PrefIdle /\ JobIdle /\ BatchIdle /\ MainIdle /\ HandlerIdle

NextExtract ==
    \/ ExtractCall
    \/ ExtractRaise
    \/ TryPrimary
    \/ TryAlternative
    \/ TryAllLinks
    \/ SkipAllLinks
    \/ ExtractReturn

SpecExtract == InitExtract /\ [][NextExtract]_vars

(***************************************************************************)
(* Claims about extract_job_links (checked under SpecExtract)              *)
(***************************************************************************)

\* The URLs a finished call added to what it was given.
AddedLinks == { job_links[i] : i \in (initial_count + 1)..Len(job_links) }

\* C8: the list a call of extract_job_links returns holds no URL twice, whatever
\* the queries found and whichever strategy added the URLs (existing_links being
\* absent or free of duplicates).
C8_NoDuplicateLinks == ex_pc = "done" => NoDuplicates(job_links)

\* A finished call that added URLs although a query offered one the list held.
C8_Witness ==
    /\ ex_pc = "done"
    /\ dup_offered
    /\ Len(job_links) >= initial_count + 2

\* C9: every URL a call of extract_job_links adds holds the path marker
\* "/job-listings", whichever strategy found it.
C9_AddedLinksHoldMarker == ex_pc = "done" => \A u \in AddedLinks : HasMarker(u)

\* C10: the strategies are tried in fixed priority and the call stops at the
\* first that yields new URLs: what was tried is an initial part of the order
\* primary, alternatives in list order, every-link fallback; a strategy other
\* than the first is tried only when the list had not grown after the one
\* before it; the screenshot is taken only when the call ends with no new URL.
C10_StrategyPriority ==
    /\ Len(tried) <= Len(StrategyOrder)
    /\ \A i \in DOMAIN tried : tried[i] = StrategyOrder[i]
    /\ \A i \in DOMAIN tried : i > 1 => counts[i - 1] = initial_count
    /\ screenshot_taken => (ex_pc = "done" /\ Len(job_links) = initial_count)

\* A finished call in which the second alternative selector was the first
\* strategy to add a URL, so that nothing was tried after it.
C10_Witness ==
    /\ ex_pc = "done"
    /\ Len(tried) = 3
    /\ Len(job_links) > initial_count
    /\ ~screenshot_taken

(***************************************************************************)
(* job_matches_preferences: the parsing of the model's reply               *)
(*                                                                         *)
(* A text is the sequence of its characters.                               *)
(***************************************************************************)
MaxReplyLen == 5    \* length of the replies drawn from ReplyChars

ReplyChars == {"y", "e", "s", "Y", " ", "."}

ReplyYesStrong == <<"Y", "e", "s", ",", " ", "s", "t", "r", "o", "n", "g", " ", "s", "k", "i", "l", "l", "s", " ", "o", "v", "e", "r", "l", "a", "p", ".">>
ReplyNoLocation == <<"N", "o", ",", " ", "l", "o", "c", "a", "t", "i", "o", "n", " ", "m", "i", "s", "m", "a", "t", "c", "h", ".">>
ReplyUpperYes == <<"Y", "E", "S">>

Replies == SeqsUpTo(ReplyChars, MaxReplyLen)
             \cup {ReplyYesStrong, ReplyNoLocation, ReplyUpperYes}

\* str.lower() on one character
LowerChar(c) ==
    CASE c = "Y" -> "y"
      [] c = "E" -> "e"
      [] c = "S" -> "s"
      [] c = "N" -> "n"
      [] c = "O" -> "o"
      [] OTHER   -> c

\* str.lower()
Lower(text) == [i \in DOMAIN text |-> LowerChar(text[i])]

\* text.startswith(prefix)
StartsWith(text, prefix) ==
    /\ Len(text) >= Len(prefix)
    /\ SubSeq(text, 1, Len(prefix)) = prefix

\* part in text
Contains(text, part) ==
    \E i \in 1..(Len(text) - Len(part) + 1) :
        SubSeq(text, i, i + Len(part) - 1) = part

\* lines 692-702: response.lower().startswith("yes") or " yes " in response.lower()
MatchDecision(reply) ==
    \/ StartsWith(Lower(reply), <<"y", "e", "s">>)
    \/ Contains(Lower(reply), <<" ", "y", "e", "s", " ">>)

\* lines 693-702: every branch sets match_reason = response
MatchReason(reply) == reply

\* job_matches_preferences on the reply the model gave: lines 688-715
PrefParse ==
    /\ pm_pc = "call"
    /\ match_decision' = MatchDecision(response)
    /\ match_reason' = MatchReason(response)
    /\ pm_pc' = "done"
    /\ UNCHANGED <<response>>
    /\ UNCHANGED <<extractVars, jobVars, batchVars>>
    /\ UNCHANGED mainVars
    /\ UNCHANGED handlerVars

InitPref ==
    /\ pm_pc = "call"
    /\ response \in Replies
    /\ match_decision = FALSE
    /\ match_reason = <<>>
    /\ ExtractIdle /\ JobIdle /\ BatchIdle /\ MainIdle /\ HandlerIdle

NextPref == PrefParse

SpecPref == InitPref /\ [][NextPref]_vars

(***************************************************************************)
(* Claims about the reply parsing (checked under SpecPref)                 *)
(***************************************************************************)

\* A character that can be part of a word.
IsWordChar(c) == c \notin {" ", ".", ",", "!", "?", ":", ";"}

\* "yes" as a standalone token of the text: not part of a longer word.
StandaloneYes(text) ==
    \E i \in 1..(Len(text) - 2) :
        /\ SubSeq(text, i, i + 2) = <<"y", "e", "s">>
        /\ (i = 1 \/ ~IsWordChar(text[i - 1]))
        /\ (i + 2 = Len(text) \/ ~IsWordChar(text[i + 3]))

\* C5: the decision is true exactly when the reply, compared case-insensitively,
\* begins with "yes" or holds "yes" as a standalone token anywhere (also at its
\* end or next to punctuation); the reason is the raw reply.
C5_DecisionIsStandaloneYes ==
    pm_pc = "done" =>
        /\ match_decision <=> (\/ StartsWith(Lower(response), <<"y", "e", "s">>)
                               \/ StandaloneYes(Lower(response)))
        /\ match_reason = response

(***************************************************************************)
(* The language-model client on the classification path                    *)
(* (bard_flash_response, src/gemini_api.py:128-183)                        *)
(***************************************************************************)
max_retries == 3

ReplyYes == <<"Y", "e", "s">>
ReplyOne == <<"1">>
ReplyEmpty == <<>>

\* What the preference model can answer to one prompt.
ClassifierReplies(always_no) ==
    IF always_no THEN {ReplyNoLocation}
    ELSE {ReplyYesStrong, ReplyNoLocation, ReplyEmpty}

\* The outcomes of bard_flash_response on a preference prompt: the reply of
\* the first request that does not raise, after at most max_retries requests;
\* after max_retries failures a default text, "1" when the error's message
\* names options, else "Yes".  No error leaves the function.
BardFlashOutcomes(always_no) ==
    { [attempts |-> f + 1, failures |-> f, raised |-> FALSE, text |-> r] :
        f \in (IF always_no THEN {0} ELSE 0..(max_retries - 1)),
        r \in ClassifierReplies(always_no) }
    \cup (IF always_no THEN {}
          ELSE { [attempts |-> max_retries, failures |-> max_retries,
                  raised |-> FALSE, text |-> r] : r \in {ReplyYes, ReplyOne} })

(***************************************************************************)
(* process_job (src/job_processor.py:1151-1311), one step per stage.       *)
(* What the page shows at a stage and whether a driver call raises there   *)
(* is the environment's choice at that step, and so is whether the         *)
(* preference-match log can be written by the one call that writes it.     *)
(* The applications log is writable or not for the whole of one call.      *)
(***************************************************************************)
max_question_attempts == 10
max_error_count_per_job == 2

\* One record of the applications log: status, application_method, error_reason
\* ("" for a key the record does not carry).
JobRecord(status, method, reason) ==
    [status |-> status, application_method |-> method, error_reason |-> reason]

\* The URL process_job was called with.
CurrentJob == job_batch[batch_i]

\* What process_job leaves alone of the batch, but for pref_log and batch_hist.
batchFrame == <<b_pc, batch_links, job_batch, batch_i, batch_success, batch_failed,
                processed_jobs, max_applications, classifier_always_no>>

Spoiled == [batch_hist EXCEPT !.plain = FALSE]

\* The call moves on to stage pc.
JobGoto(pc, h) ==
    /\ j_pc' = pc
    /\ hist' = h
    /\ UNCHANGED <<j_result, j_records>>

\* The call returns result, having appended recs to the applications log.
JobReturn(result, recs, h) ==
    /\ j_pc' = "returned"
    /\ j_result' = result
    /\ j_records' = j_records \o recs
    /\ hist' = h

\* The places where a driver call stands in process_job's outer try only (or in
\* a callee, outside every try of its own).
OuterTrySites == {"start", "extract", "already", "continuation", "ext_data"}

\* lines 1309-1311: an error no inner handler caught: return False
JobUnhandledError ==
    /\ j_pc \in OuterTrySites
    /\ JobReturn(FALSE, <<>>, hist)
    /\ batch_hist' = Spoiled
    /\ UNCHANGED <<job_error_count, question_attempts, job_log_ok>>
    /\ UNCHANGED <<extractVars, prefVars, batchFrame, pref_log>>
    /\ UNCHANGED mainVars
    /\ UNCHANGED handlerVars

\* lines 1153-1160: the state of the applications log is met; the company-site
\* control is looked for
JobStart ==
    /\ j_pc = "start"
    /\ job_log_ok' \in BOOLEAN
    /\ \E company_site_button \in BOOLEAN :
          IF company_site_button
          THEN JobGoto("ext_data", [hist EXCEPT !.external = TRUE])
          ELSE JobGoto("extract", hist)
    /\ UNCHANGED <<job_error_count, question_attempts>>
    /\ UNCHANGED <<extractVars, prefVars, batchVars>>
    /\ UNCHANGED mainVars
    /\ UNCHANGED handlerVars

\* lines 1162-1169: extract_detailed_job_info; an HTML error page is logged as failed
JobExtract ==
    /\ j_pc = "extract"
    /\ \E html_error_page \in BOOLEAN :
          IF html_error_page
          THEN /\ JobReturn(FALSE,
                     IF job_log_ok THEN <<JobRecord("failed", "", "html_response")>>
                     ELSE <<>>, hist)
               /\ batch_hist' = Spoiled
          ELSE /\ JobGoto("already", hist)
               /\ UNCHANGED batch_hist
    /\ UNCHANGED <<job_error_count, question_attempts, job_log_ok>>
    /\ UNCHANGED <<extractVars, prefVars, batchFrame, pref_log>>
    /\ UNCHANGED mainVars
    /\ UNCHANGED handlerVars

\* A mutant of AfterAlreadyCheck: an already-applied indicator does not end the job.
AfterAlreadyCheckIgnored(indicator) == "pref"

\* line 1175: if already_applied_elements or already_applied_texts: ... return
AfterAlreadyCheck(indicator) == IF indicator THEN "returned" ELSE "pref"

\* lines 1171-1182: an already-applied indicator ends the job as success;
\* details_ok: extract_job_details raised nothing
JobAlreadyApplied ==
    /\ j_pc = "already"
    /\ \E indicator \in BOOLEAN, details_ok \in BOOLEAN :
          LET h == [hist EXCEPT !.already_found = indicator,
                                !.already_clear = ~indicator]
          IN  IF AfterAlreadyCheck(indicator) = "returned"
              THEN /\ IF details_ok /\ job_log_ok
                      THEN JobReturn(TRUE,
                               <<JobRecord("success", "already_applied", "")>>, h)
                      ELSE JobReturn(FALSE, <<>>, h)
                   /\ batch_hist' = Spoiled
              ELSE /\ JobGoto(AfterAlreadyCheck(indicator), h)
                   /\ batch_hist' = IF indicator THEN Spoiled ELSE batch_hist
    /\ UNCHANGED <<job_error_count, question_attempts, job_log_ok>>
    /\ UNCHANGED <<extractVars, prefVars, batchFrame, pref_log>>
    /\ UNCHANGED mainVars
    /\ UNCHANGED handlerVars

\* The history of a call of job_matches_preferences that made the requests of
\* outcome o to the preference model.
Classified(h, o, outcome) ==
    [h EXCEPT !.classifier_attempts = @ + o.attempts,
              !.classifier_failures = @ + o.failures,
              !.pref_outcome = outcome]

\* One preference-match record: lines 705-713 (of its fields, the decision)
MatchData(o) == [matches_preferences |-> MatchDecision(o.text)]

\* job_matches_preferences returns no decision: the model call raised, or the
\* preference-match log cannot be written (line 713)
PrefRaises(o, pref_log_ok) == o.raised \/ ~pref_log_ok

\* A mutant of AfterPreference: a negative decision does not end the job.
AfterPreferenceIgnored(decision) == "apply"

\* lines 1188-1192: a negative decision returns False, a positive one goes on
AfterPreference(decision) == IF decision THEN "apply" ELSE "returned"

\* lines 1184-1197: the preference check
JobPreference ==
    /\ j_pc = "pref"
    /\ \E o \in BardFlashOutcomes(classifier_always_no), pref_log_ok \in BOOLEAN :
          IF PrefRaises(o, pref_log_ok)
          THEN \* except: job_error_count += 1 (it cannot exceed 2 here)
               /\ job_error_count' = job_error_count + 1
               /\ IF job_error_count + 1 > 2
                  THEN JobReturn(FALSE, <<>>, Classified(hist, o, "raised"))
                  ELSE JobGoto("apply", Classified(hist, o, "raised"))
               /\ batch_hist' = Spoiled
               /\ UNCHANGED <<prefVars, pref_log>>
          ELSE /\ response' = o.text
               /\ match_decision' = MatchDecision(o.text)
               /\ match_reason' = MatchReason(o.text)
               /\ pref_log' = Append(pref_log, MatchData(o))
               /\ IF AfterPreference(MatchDecision(o.text)) = "returned"
                  THEN JobReturn(FALSE, <<>>, Classified(hist, o, "false"))
                  ELSE JobGoto(AfterPreference(MatchDecision(o.text)),
                               Classified(hist, o,
                                   IF MatchDecision(o.text) THEN "true" ELSE "false"))
               /\ UNCHANGED <<job_error_count, batch_hist, pm_pc>>
    /\ UNCHANGED <<question_attempts, job_log_ok>>
    /\ UNCHANGED <<extractVars, batchFrame>>
    /\ UNCHANGED mainVars
    /\ UNCHANGED handlerVars

\* lines 1199-1229: the direct-apply attempt
JobApply ==
    /\ j_pc = "apply"
    /\ \E clicked \in BOOLEAN, seen \in {"nothing", "success", "error"} :
          LET h == [hist EXCEPT !.apply_attempted = TRUE,
                                !.apply_clicked = clicked]
          IN  IF seen = "success" /\ job_log_ok
              THEN /\ JobReturn(TRUE, <<JobRecord("success", "direct_apply", "")>>, h)
                   /\ UNCHANGED job_error_count
              ELSE IF seen = "nothing"
              THEN /\ JobGoto("loop", h)
                   /\ UNCHANGED job_error_count
              ELSE \* except: job_error_count += 1 (it cannot exceed 2 here)
                   /\ job_error_count' = job_error_count + 1
                   /\ IF job_error_count + 1 > 2
                      THEN JobReturn(FALSE, <<>>, h)
                      ELSE JobGoto("loop", h)
    /\ UNCHANGED <<question_attempts, job_log_ok>>
    /\ UNCHANGED <<extractVars, prefVars, batchVars>>
    /\ UNCHANGED mainVars
    /\ UNCHANGED handlerVars

\* lines 1235-1236: while question_attempts < max_question_attempts
JobLoop ==
    /\ j_pc = "loop"
    /\ IF question_attempts < max_question_attempts
       THEN /\ question_attempts' = question_attempts + 1
            /\ JobGoto("radio", hist)
       ELSE /\ JobGoto("fallback", hist)
            /\ UNCHANGED question_attempts
    /\ UNCHANGED <<job_error_count, job_log_ok>>
    /\ UNCHANGED <<extractVars, prefVars, batchVars>>
    /\ UNCHANGED mainVars
    /\ UNCHANGED handlerVars

\* lines 1238-1244 with handle_radio_buttons (lines 762-819): the handler
\* catches every error; it returns True only after logging the success; it
\* returns False also after an option was clicked and saved, when no success
\* message follows
JobRadio ==
    /\ j_pc = "radio"
    /\ \E applied \in BOOLEAN, answered \in BOOLEAN :
          LET h == [hist EXCEPT !.handler_called = TRUE,
                                !.question_answered = @ \/ answered \/ applied]
          IN  IF applied /\ job_log_ok
              THEN JobReturn(TRUE, <<JobRecord("success", "radio_buttons", "")>>, h)
              ELSE JobGoto("text", h)
    /\ UNCHANGED <<job_error_count, question_attempts, job_log_ok>>
    /\ UNCHANGED <<extractVars, prefVars, batchVars>>
    /\ UNCHANGED mainVars
    /\ UNCHANGED handlerVars

\* lines 1246-1252 with handle_text_input (lines 821-1111): True with a success
\* record, True without one (lines 1089, 1097), False, or an error raised while
\* the completed sequence is logged (lines 1104-1108)
JobText ==
    /\ j_pc = "text"
    /\ \E outcome \in {"logged", "unlogged", "false", "raised"} :
          LET h == [hist EXCEPT !.handler_called = TRUE]
          IN  IF outcome = "logged" /\ job_log_ok
              THEN /\ JobReturn(TRUE,
                          <<JobRecord("success", "text_input_qa_sequence", "")>>, h)
                   /\ UNCHANGED job_error_count
              ELSE IF outcome = "unlogged"
              THEN /\ JobReturn(TRUE, <<>>, h)
                   /\ UNCHANGED job_error_count
              ELSE IF outcome = "raised"
              THEN /\ job_error_count' = job_error_count + 1
                   /\ JobGoto("indicators", h)
              ELSE /\ JobGoto("indicators", h)
                   /\ UNCHANGED job_error_count
    /\ UNCHANGED <<question_attempts, job_log_ok>>
    /\ UNCHANGED <<extractVars, prefVars, batchVars>>
    /\ UNCHANGED mainVars
    /\ UNCHANGED handlerVars

\* lines 1254-1256 with check_for_success_indicators (lines 1113-1149)
JobIndicators ==
    /\ j_pc = "indicators"
    /\ \E found \in BOOLEAN :
          IF found /\ job_log_ok
          THEN JobReturn(TRUE, <<JobRecord("success", "success_detection", "")>>, hist)
          ELSE JobGoto("budget", hist)
    /\ UNCHANGED <<job_error_count, question_attempts, job_log_ok>>
    /\ UNCHANGED <<extractVars, prefVars, batchVars>>
    /\ UNCHANGED mainVars
    /\ UNCHANGED handlerVars

\* lines 1258-1271: too many errors abort the application
JobBudget ==
    /\ j_pc = "budget"
    /\ IF job_error_count > max_error_count_per_job
       THEN JobReturn(FALSE,
                IF job_log_ok THEN <<JobRecord("failed", "", "too_many_errors")>>
                ELSE <<>>, hist)
       ELSE JobGoto("continuation", hist)
    /\ UNCHANGED <<job_error_count, question_attempts, job_log_ok>>
    /\ UNCHANGED <<extractVars, prefVars, batchVars>>
    /\ UNCHANGED mainVars
    /\ UNCHANGED handlerVars

\* lines 1276-1293: is there anything to go on with
JobContinuation ==
    /\ j_pc = "continuation"
    /\ \E continuation \in BOOLEAN, success_text \in BOOLEAN, details_ok \in BOOLEAN :
          IF continuation
          THEN JobGoto("loop", hist)
          ELSE IF success_text
          THEN IF details_ok /\ job_log_ok
               THEN JobReturn(TRUE, <<JobRecord("success", "text_detection", "")>>, hist)
               ELSE JobReturn(FALSE, <<>>, hist)
          ELSE JobGoto("fallback", hist)
    /\ UNCHANGED <<job_error_count, question_attempts, job_log_ok>>
    /\ UNCHANGED <<extractVars, prefVars, batchVars>>
    /\ UNCHANGED mainVars
    /\ UNCHANGED handlerVars

\* line 1297: if job_error_count <= 1 and question_attempts > 3
FallbackIsSuccess(errors, attempts) == errors <= 1 /\ attempts > 3

\* lines 1295-1307: the loop is left with no clear outcome
JobFallback ==
    /\ j_pc = "fallback"
    /\ \E details_ok \in BOOLEAN :
          IF FallbackIsSuccess(job_error_count, question_attempts)
          THEN IF details_ok /\ job_log_ok
               THEN JobReturn(TRUE, <<JobRecord("success", "probable_success", "")>>, hist)
               ELSE JobReturn(FALSE, <<>>, hist)
          ELSE JobReturn(FALSE, <<>>, hist)
    /\ UNCHANGED <<job_error_count, question_attempts, job_log_ok>>
    /\ UNCHANGED <<extractVars, prefVars, batchVars>>
    /\ UNCHANGED mainVars
    /\ UNCHANGED handlerVars

(***************************************************************************)
(* handle_company_site_application (src/job_processor.py:472-551)          *)
(***************************************************************************)

\* lines 476-504: extract_job_card_data and the alternative extraction
JobExternalData ==
    /\ j_pc = "ext_data"
    /\ \E title_or_description \in BOOLEAN :
          IF title_or_description
          THEN /\ JobGoto("ext_pref", hist)
               /\ UNCHANGED batch_hist
          ELSE /\ JobGoto("ext_log", hist)
               /\ batch_hist' = Spoiled
    /\ UNCHANGED <<job_error_count, question_attempts, job_log_ok>>
    /\ UNCHANGED <<extractVars, prefVars, batchFrame, pref_log>>
    /\ UNCHANGED mainVars
    /\ UNCHANGED handlerVars

\* lines 506-524: the preference check of the external branch; a mismatch is
\* logged as skipped; any error in here is caught and the job goes on
JobExternalPreference ==
    /\ j_pc = "ext_pref"
    /\ \E o \in BardFlashOutcomes(classifier_always_no), pref_log_ok \in BOOLEAN :
          IF PrefRaises(o, pref_log_ok)
          THEN /\ JobGoto("ext_log", Classified(hist, o, "raised"))
               /\ batch_hist' = Spoiled
               /\ UNCHANGED <<prefVars, pref_log>>
          ELSE /\ response' = o.text
               /\ match_decision' = MatchDecision(o.text)
               /\ match_reason' = MatchReason(o.text)
               /\ pref_log' = Append(pref_log, MatchData(o))
               /\ IF MatchDecision(o.text)
                  THEN JobGoto("ext_log", Classified(hist, o, "true"))
                  ELSE IF job_log_ok
                  THEN JobReturn(FALSE, <<JobRecord("skipped", "", "")>>,
                                 Classified(hist, o, "false"))
                  ELSE JobGoto("ext_log", Classified(hist, o, "false"))
               /\ UNCHANGED <<batch_hist, pm_pc>>
    /\ UNCHANGED <<job_error_count, question_attempts, job_log_ok>>
    /\ UNCHANGED <<extractVars, batchFrame>>
    /\ UNCHANGED mainVars
    /\ UNCHANGED handlerVars

\* lines 526-551: the job is logged as external_site_matched; the company-site
\* control is clicked when the configuration asks for it, and the visit logged
JobExternalLog ==
    /\ j_pc = "ext_log"
    /\ \E clicked \in BOOLEAN, visit_logged \in BOOLEAN :
          IF ~job_log_ok
          THEN JobReturn(FALSE, <<>>, hist)
          ELSE JobReturn(TRUE,
                   <<JobRecord("external_site_matched", "external_site", "")>>
                   \o (IF clicked /\ visit_logged
                       THEN <<JobRecord("external_site_visited", "external_site", "")>>
                       ELSE <<>>),
                   [hist EXCEPT !.site_clicked = clicked])
    /\ UNCHANGED <<job_error_count, question_attempts, job_log_ok>>
    /\ UNCHANGED <<extractVars, prefVars, batchVars>>
    /\ UNCHANGED mainVars
    /\ UNCHANGED handlerVars

\* process_job in full
ProcessJob ==
    \/ JobStart
    \/ JobUnhandledError
    \/ JobExtract
    \/ JobAlreadyApplied
    \/ JobPreference
    \/ JobApply
    \/ JobLoop
    \/ JobRadio
    \/ JobText
    \/ JobIndicators
    \/ JobBudget
    \/ JobContinuation
    \/ JobFallback
    \/ JobExternalData
    \/ JobExternalPreference
    \/ JobExternalLog

(***************************************************************************)
(* process_job_batch (src/main.py:72-131) and the processed set            *)
(***************************************************************************)
\* The cap on the jobs of one batch.  It is 20 in the code (src/main.py:78);
\* the model scales it down so that a list longer than the cap is met.
BatchCap == 2

MaxBatchLinks == 3   \* length of the list handed to process_job_batch

JobD == <<"job-listings", "d">>
JobE == <<"job-listings", "e">>
JobList == <<JobA, JobB, JobC, JobD, JobE>>

Min(a, b) == IF a <= b THEN a ELSE b

\* A mutant of is_job_processed: the lookup never finds the URL.
is_job_processed_never(job_url) == FALSE

\* is_job_processed: lines 58-61
is_job_processed(job_url) == job_url \in processed_jobs

\* A mutant of mark_job_processed: the URL is not inserted.
mark_job_processed_not(jobs, job_url) == jobs

\* mark_job_processed: lines 63-66 (the set in memory)
mark_job_processed(jobs, job_url) == jobs \cup {job_url}

\* list.remove(x): the first occurrence of x leaves the list
RemoveFirst(list, x) ==
    IF x \notin Range(list) THEN list
    ELSE LET i == CHOOSE i \in DOMAIN list :
                    list[i] = x /\ \A j \in 1..(i - 1) : list[j] # x
         IN  SubSeq(list, 1, i - 1) \o SubSeq(list, i + 1, Len(list))

\* lines 127-129: every job of the batch leaves the caller's list
RECURSIVE RemoveBatch(_, _)
RemoveBatch(list, batch) ==
    IF batch = <<>> THEN list
    ELSE RemoveBatch(RemoveFirst(list, Head(batch)), Tail(batch))

\* lines 77-79: job_batch = job_links[:max_per_batch]
FirstBatch(links) == SubSeq(links, 1, Min(BatchCap, Len(links)))

\* lines 74-79: the entry of process_job_batch(driver, links, config)
EnterBatch(links) ==
    /\ b_pc = "loop"
    /\ batch_links = links
    /\ job_batch = FirstBatch(links)
    /\ batch_i = 1
    /\ batch_success = 0
    /\ batch_failed = 0

\* A mutant of BatchCounts: a failed job is counted as a success.
BatchCountsAllSuccess(success) ==
    [successful |-> batch_success + 1, failed |-> batch_failed]

\* lines 102-108: the result of process_job is counted
BatchCounts(success) ==
    IF success THEN [successful |-> batch_success + 1, failed |-> batch_failed]
    ELSE [successful |-> batch_success, failed |-> batch_failed + 1]

\* lines 81-100 and 121-124: the next job of the batch: skipped when it is in
\* the processed set; else navigated to, and process_job called; when the
\* navigation raises the job is marked processed and counted as failed
BatchStep ==
    /\ b_pc = "loop"
    /\ batch_i <= Len(job_batch)
    /\ IF is_job_processed(CurrentJob)
       THEN /\ batch_i' = batch_i + 1
            /\ UNCHANGED <<b_pc, batch_failed, processed_jobs, batch_hist, jobVars>>
       ELSE \E navigated \in BOOLEAN :
               IF navigated
               THEN /\ b_pc' = "job"
                    /\ j_pc' = "start"
                    /\ job_error_count' = 0
                    /\ question_attempts' = 0
                    /\ j_result' = FALSE
                    /\ j_records' = <<>>
                    /\ hist' = NoHistory
                    /\ batch_hist' =
                         [batch_hist EXCEPT
                            !.calls = Append(@, CurrentJob),
                            !.stale_call = @ \/ CurrentJob \in processed_jobs]
                    /\ UNCHANGED <<batch_i, batch_failed, processed_jobs,
                                   job_log_ok>>
               ELSE /\ processed_jobs' = mark_job_processed(processed_jobs, CurrentJob)
                    /\ batch_failed' = batch_failed + 1
                    /\ batch_i' = batch_i + 1
                    /\ batch_hist' = Spoiled
                    /\ UNCHANGED <<b_pc, jobVars>>
    /\ UNCHANGED <<batch_links, job_batch, batch_success, max_applications,
                   classifier_always_no, pref_log>>
    /\ UNCHANGED <<extractVars, prefVars>>
    /\ UNCHANGED mainVars
    /\ UNCHANGED handlerVars

\* The call of process_job is over: its locals are gone.
JobDiscarded ==
    /\ j_pc' = "none"
    /\ job_error_count' = 0
    /\ question_attempts' = 0
    /\ j_result' = FALSE
    /\ j_records' = <<>>
    /\ job_log_ok' = TRUE
    /\ hist' = NoHistory
    /\ response' = <<>>
    /\ match_decision' = FALSE
    /\ match_reason' = <<>>
    /\ UNCHANGED pm_pc

\* lines 102-119: the result is counted, the job marked processed; the loop is
\* left when the batch has reached max_applications
BatchRecord ==
    /\ b_pc = "job"
    /\ j_pc = "returned"
    /\ batch_success' = BatchCounts(j_result).successful
    /\ batch_failed' = BatchCounts(j_result).failed
    /\ processed_jobs' = mark_job_processed(processed_jobs, CurrentJob)
    /\ IF j_result /\ batch_success' >= max_applications
       THEN b_pc' = "break" /\ UNCHANGED batch_i
       ELSE b_pc' = "loop" /\ batch_i' = batch_i + 1
    /\ JobDiscarded
    /\ UNCHANGED <<batch_links, job_batch, max_applications, classifier_always_no,
                   pref_log, batch_hist>>
    /\ UNCHANGED extractVars
    /\ UNCHANGED mainVars
    /\ UNCHANGED handlerVars

\* lines 126-131: the batch leaves the caller's list; the counts are returned
BatchReturn ==
    /\ \/ b_pc = "break"
       \/ b_pc = "loop" /\ batch_i > Len(job_batch)
    /\ batch_links' = RemoveBatch(batch_links, job_batch)
    /\ b_pc' = "returned"
    /\ UNCHANGED <<job_batch, batch_i, batch_success, batch_failed, processed_jobs,
                   max_applications, classifier_always_no, pref_log, batch_hist>>
    /\ UNCHANGED <<extractVars, prefVars, jobVars>>
    /\ UNCHANGED mainVars
    /\ UNCHANGED handlerVars

MaxTarget == 2   \* the largest max_applications drawn

InitBatch ==
    /\ ExtractIdle /\ PrefIdle /\ JobIdle /\ MainIdle /\ HandlerIdle
    /\ \E k \in 0..MaxBatchLinks : EnterBatch(SubSeq(JobList, 1, k))
    /\ processed_jobs = {Other}
    /\ max_applications \in 1..MaxTarget
    /\ classifier_always_no \in BOOLEAN
    /\ pref_log = <<>>
    /\ batch_hist = [NoBatchHistory EXCEPT !.len0 = Len(batch_links)]

NextBatch ==
    \/ BatchStep
    \/ ProcessJob
    \/ BatchRecord
    \/ BatchReturn

SpecBatch == InitBatch /\ [][NextBatch]_vars

(***************************************************************************)
(* Claims about process_job and process_job_batch (checked under SpecBatch)*)
(***************************************************************************)
JobStatuses == {"success", "failed", "skipped", "external_site_matched",
                "external_site_visited"}

AlreadyAppliedRecord == JobRecord("success", "already_applied", "")

\* C2: every return of process_job has appended exactly one record to the
\* applications log during the call, its status one of the five statuses, and
\* a record of status failed carries an error_reason.
C2_OneRecordPerReturn ==
    j_pc = "returned" =>
        /\ Len(j_records) = 1
        /\ j_records[1].status \in JobStatuses
        /\ j_records[1].status = "failed" => j_records[1].error_reason # ""

\* C3 as stated: the classifier is consulted only after the already-applied
\* check found no indicator, the Apply control is clicked only after the
\* preference check has run, the handlers run only after the direct-apply
\* attempt, and an already-applied indicator ends the job as Success with
\* method already_applied, with no classifier call and no Apply click.
C3_StagesInOrder_AsStated ==
    /\ hist.classifier_attempts > 0 => hist.already_clear
    /\ hist.apply_clicked => hist.pref_outcome # "none"
    /\ hist.handler_called => hist.apply_attempted
    /\ hist.already_found =>
          /\ hist.classifier_attempts = 0
          /\ ~hist.apply_clicked
          /\ j_pc = "returned"
          /\ j_result
          /\ j_records = <<AlreadyAppliedRecord>>

\* C3, amended: outside the company-site branch the classifier is consulted
\* only after the already-applied check found no indicator; the Apply control
\* is clicked only after the preference check has run; the handlers run only
\* after the direct-apply attempt; an already-applied indicator ends the job
\* with no classifier call and no Apply click, as Success with the one record
\* of method already_applied when the details were read and the record was
\* written, and as failure with no record otherwise.
C3_StagesInOrder ==
    /\ (hist.classifier_attempts > 0 /\ ~hist.external) => hist.already_clear
    /\ hist.apply_clicked => hist.pref_outcome # "none"
    /\ hist.handler_called => hist.apply_attempted
    /\ hist.already_found =>
          /\ hist.classifier_attempts = 0
          /\ ~hist.apply_clicked
          /\ ~hist.handler_called
          /\ j_pc = "returned"
          /\ \/ j_result /\ j_records = <<AlreadyAppliedRecord>>
             \/ ~j_result /\ j_records = <<>>

\* A job that passed every stage: no indicator, a decision, the Apply control
\* clicked, a handler run.
C3_Witness ==
    /\ ~hist.external
    /\ hist.already_clear
    /\ hist.pref_outcome = "true"
    /\ hist.apply_clicked
    /\ hist.handler_called

C6_ClassifierErrorIsNoDecision ==
    hist.classifier_failures > 0 =>
        /\ hist.classifier_attempts = 1
        /\ hist.pref_outcome = "raised"
        /\ ~hist.external => job_error_count >= 1

C11_FailedHandlerCounts ==
    [][/\ (j_pc = "radio" /\ j_pc' = "text") =>
              job_error_count' = job_error_count + 1
       /\ (j_pc = "text" /\ j_pc' = "indicators") =>
              job_error_count' = job_error_count + 1]_vars

\* C12: when the question loop is left because no continuation element is
\* found (before the attempts run out), a question having been answered and no
\* error counted, the outcome is Success with method probable_success,
\* whatever the number of rounds the loop made.
C12_ProbableSuccessOnExit ==
    (/\ j_pc = "fallback"
     /\ question_attempts < max_question_attempts
     /\ hist.question_answered
     /\ job_error_count = 0) =>
        FallbackIsSuccess(job_error_count, question_attempts)

(***************************************************************************)
(* get_default_answer and get_safe_response (src/job_processor.py:717-760) *)
(*                                                                         *)
(* A question is the sequence of its words; a keyword of several words is  *)
(* found where its words stand in a row.  An answer taken from the         *)
(* configuration is named by its key.                                      *)
(***************************************************************************)
MaxQuestionLen == 3   \* words of the questions drawn from QuestionWords

QuestionWords == {"Notice", "joining", "salary", "CTC", "location", "name"}

QNoticePeriod == <<"What", "is", "your", "notice", "period">>
QDateOfBirth  == <<"Date", "of", "Birth">>
QBlank        == <<>>

Questions == SeqsUpTo(QuestionWords, MaxQuestionLen) \cup {QNoticePeriod, QDateOfBirth}

\* str.lower() on one word
LowerWord(w) ==
    CASE w = "Notice" -> "notice"
      [] w = "CTC"    -> "ctc"
      [] w = "What"   -> "what"
      [] w = "Date"   -> "date"
      [] w = "Birth"  -> "birth"
      [] OTHER        -> w

\* question.lower()
LowerWords(question) == [i \in DOMAIN question |-> LowerWord(question[i])]

CfgNoticePeriod    == <<"default_answers.notice_period">>
CfgExpectedSalary  == <<"default_answers.expected_salary">>
CfgCurrentLocation == <<"default_answers.current_location">>
CfgReason          == <<"default_answers.reason_for_job_change">>
CfgDob             == <<"date_formats.dob">>
CfgFirstPreferred  == <<"default_answers.preferred_locations[0]">>
CfgGeneric         == <<"default_answers.generic_response">>

\* lines 737-757: the if/elif chain, in its order: the keywords of a branch and
\* the answer it returns
DefaultRules ==
    << [keys |-> {<<"notice">>, <<"joining">>},           answer |-> CfgNoticePeriod],
       [keys |-> {<<"salary">>, <<"ctc">>, <<"package">>}, answer |-> CfgExpectedSalary],
       [keys |-> {<<"location">>, <<"city">>},            answer |-> CfgCurrentLocation],
       [keys |-> {<<"shift">>, <<"work", "hours">>, <<"timing">>},
                                                          answer |-> <<"Flexible">>],
       [keys |-> {<<"reason">>, <<"why">>},               answer |-> CfgReason],
       [keys |-> {<<"date", "of", "birth">>, <<"dob">>},  answer |-> CfgDob],
       [keys |-> {<<"willing", "to", "relocate">>},       answer |-> <<"Yes">>],
       [keys |-> {<<"preferred", "location">>},           answer |-> CfgFirstPreferred],
       [keys |-> {<<"experience">>, <<"years">>},         answer |-> <<"3.5 years">>],
       [keys |-> {<<"skills">>, <<"technologies">>},
                                                 answer |-> <<"Python, Django, Flask">>] >>

\* The condition of one branch: one of its keywords is in question_lower.
RuleApplies(rule, question_lower) == \E key \in rule.keys : Contains(question_lower, key)

\* A mutant of get_default_answer: the salary branch is tested before the
\* notice branch.
get_default_answer_salary_first(question) ==
    LET question_lower == LowerWords(question)
        order == <<2, 1>> \o [i \in 1..(Len(DefaultRules) - 2) |-> i + 2]
        hits == { i \in DOMAIN order : RuleApplies(DefaultRules[order[i]], question_lower) }
    IN  IF hits = {} THEN CfgGeneric
        ELSE DefaultRules[order[CHOOSE i \in hits : \A j \in hits : i <= j]].answer

\* get_default_answer: lines 732-760: the answer of the first branch that applies
get_default_answer(question) ==
    LET question_lower == LowerWords(question)
        hits == { i \in DOMAIN DefaultRules : RuleApplies(DefaultRules[i], question_lower) }
    IN  IF hits = {} THEN CfgGeneric
        ELSE DefaultRules[CHOOSE i \in hits : \A j \in hits : i <= j].answer

\* One call of get_default_answer
DefaultAnswer ==
    /\ a_pc = "default"
    /\ a_answer' = get_default_answer(a_question)
    /\ a_pc' = "done"
    /\ UNCHANGED <<a_question, a_outcome>>
    /\ UNCHANGED <<extractVars, prefVars, jobVars, batchVars, mainVars>>
    /\ UNCHANGED <<radioVars, textVars, fetch_hist, serviceVars>>

InitDefault ==
    /\ ExtractIdle /\ PrefIdle /\ JobIdle /\ BatchIdle /\ MainIdle
    /\ RadioIdle /\ TextIdle /\ fetch_hist = <<>> /\ ServiceIdle
    /\ a_pc = "default"
    /\ a_question \in Questions
    /\ a_outcome = NoOutcome
    /\ a_answer = <<>>

NextDefault == DefaultAnswer

SpecDefault == InitDefault /\ [][NextDefault]_vars

\* What the conversational model answers to a question.
ModelAnswer == <<"I", "can", "join", "in", "a", "month">>

\* The outcomes of bard_flash_response on a question that is not a preference
\* prompt (src/gemini_api.py:128-183): the reply of the first request that does
\* not raise; after max_retries failures the text "1" or "Yes".  No error
\* leaves the function.
ChatOutcomes ==
    { [attempts |-> f + 1, failures |-> f, raised |-> FALSE, text |-> r] :
        f \in 0..(max_retries - 1), r \in {ModelAnswer, ReplyEmpty} }
    \cup { [attempts |-> max_retries, failures |-> max_retries,
            raised |-> FALSE, text |-> r] : r \in {ReplyYes, ReplyOne} }

\* lines 723-730: the reply, or the default answer when the reply is empty or
\* the call raised
SafeAnswer(question, o) ==
    IF o.raised \/ o.text = <<>> THEN get_default_answer(question) ELSE o.text

\* get_safe_response: lines 717-730
SafeResponse ==
    /\ a_pc = "safe"
    /\ IF a_question = QBlank
       THEN \* lines 719-721
            /\ a_answer' = ReplyYes
            /\ UNCHANGED a_outcome
       ELSE \E o \in ChatOutcomes :
               /\ a_outcome' = o
               /\ a_answer' = SafeAnswer(a_question, o)
    /\ a_pc' = "done"
    /\ UNCHANGED a_question
    /\ UNCHANGED <<extractVars, prefVars, jobVars, batchVars, mainVars>>
    /\ UNCHANGED <<radioVars, textVars, fetch_hist, serviceVars>>

InitAnswer ==
    /\ ExtractIdle /\ PrefIdle /\ JobIdle /\ BatchIdle /\ MainIdle
    /\ RadioIdle /\ TextIdle /\ fetch_hist = <<>> /\ ServiceIdle
    /\ a_pc = "safe"
    /\ a_question \in Questions
    /\ a_outcome = NoOutcome
    /\ a_answer = <<>>

NextAnswer == SafeResponse

SpecAnswer == InitAnswer /\ [][NextAnswer]_vars

(***************************************************************************)
(* Claims about the answers (checked under SpecAnswer and SpecDefault)     *)
(***************************************************************************)

\* C15: when the conversational model fails on every attempt or returns an
\* empty text, the answer get_safe_response returns is get_default_answer's
\* answer for the question.
C15_FallbackIsDefaultAnswer ==
    (/\ a_pc = "done"
     /\ a_question # QBlank
     /\ \/ a_outcome.failures = max_retries
        \/ a_outcome.text = <<>>) =>
        a_answer = get_default_answer(a_question)

\* C16 as stated: the notice-period default for every question holding
\* "notice" or "joining", and the expected-salary default for every question
\* holding "salary" or "ctc", whatever else the question holds.
C16_KeywordDefaults_AsStated ==
    a_pc = "done" =>
        LET q == LowerWords(a_question)
        IN  /\ (Contains(q, <<"notice">>) \/ Contains(q, <<"joining">>)) =>
                  a_answer = CfgNoticePeriod
            /\ (Contains(q, <<"salary">>) \/ Contains(q, <<"ctc">>)) =>
                  a_answer = CfgExpectedSalary

\* C16, amended: the notice-period default for every question holding "notice"
\* or "joining"; the expected-salary default for every question holding
\* "salary" or "ctc" and neither "notice" nor "joining"; without regard to
\* case and whatever else the question holds.
C16_KeywordDefaults ==
    a_pc = "done" =>
        LET q == LowerWords(a_question)
            notice == Contains(q, <<"notice">>) \/ Contains(q, <<"joining">>)
        IN  /\ notice => a_answer = CfgNoticePeriod
            /\ ((Contains(q, <<"salary">>) \/ Contains(q, <<"ctc">>)) /\ ~notice) =>
                  a_answer = CfgExpectedSalary

\* A salary question in capitals that also names the location.
C16_Witness ==
    /\ a_pc = "done"
    /\ a_question = <<"location", "CTC">>
    /\ a_answer = CfgExpectedSalary

(***************************************************************************)
(* handle_radio_buttons (src/job_processor.py:762-819)                     *)
(***************************************************************************)
MaxOptions == 3         \* radio buttons of the question
MaxRadioReplyLen == 2   \* length of the replies drawn from RadioReplyChars

RadioReplyChars == {"0", "1", "2", "4", "-", " ", "x"}

RadioReplies == SeqsUpTo(RadioReplyChars, MaxRadioReplyLen)

Digits == {"0", "1", "2", "3", "4", "5", "6", "7", "8", "9"}

DigitValue(c) ==
    CASE c = "0" -> 0 [] c = "1" -> 1 [] c = "2" -> 2 [] c = "3" -> 3 [] c = "4" -> 4
      [] c = "5" -> 5 [] c = "6" -> 6 [] c = "7" -> 7 [] c = "8" -> 8 [] OTHER -> 9

\* str.strip() for the blank
RECURSIVE Strip(_)
Strip(text) ==
    IF text # <<>> /\ Head(text) = " " THEN Strip(Tail(text))
    ELSE IF text # <<>> /\ text[Len(text)] = " " THEN Strip(SubSeq(text, 1, Len(text) - 1))
    ELSE text

\* The value of a row of digits.
RECURSIVE DigitsValue(_)
DigitsValue(ds) ==
    IF ds = <<>> THEN 0
    ELSE 10 * DigitsValue(SubSeq(ds, 1, Len(ds) - 1)) + DigitValue(ds[Len(ds)])

\* int(text): blanks around are dropped, a sign may lead, digits must follow;
\* ok is FALSE where int raises ValueError
ParseInt(text) ==
    LET t == Strip(text)
        signed == t # <<>> /\ Head(t) \in {"-", "+"}
        ds == IF signed THEN Tail(t) ELSE t
    IN  IF ds # <<>> /\ \A i \in DOMAIN ds : ds[i] \in Digits
        THEN [ok |-> TRUE,
              value |-> IF signed /\ Head(t) = "-" THEN 0 - DigitsValue(ds)
                        ELSE DigitsValue(ds)]
        ELSE [ok |-> FALSE, value |-> 0]

\* radio_buttons[selected_option - 1] on a list of n buttons: the number of the
\* button taken, 0 where the index raises IndexError.  A negative index counts
\* from the end of the list.
ButtonAt(n, selected_option) ==
    LET index == selected_option - 1
    IN  IF 0 <= index /\ index < n THEN index + 1
        ELSE IF 0 - n <= index /\ index < 0 THEN n + index + 1
        ELSE 0

\* One call of handle_radio_buttons on a question with r_options buttons.
\* early_error: an error before the model is asked (lines 766-794);
\* succeeded: the option was saved and the success message seen (lines 799-814)
RadioCall ==
    /\ r_pc = "call"
    /\ \E early_error \in BOOLEAN, succeeded \in BOOLEAN :
          LET parsed == ParseInt(r_reply)
              button == IF early_error \/ ~parsed.ok THEN 0
                        ELSE ButtonAt(r_options, parsed.value)
          IN  /\ r_clicked' = button
              /\ r_result' = (button # 0 /\ succeeded)
    /\ r_pc' = "done"
    /\ UNCHANGED <<r_options, r_reply>>
    /\ UNCHANGED <<extractVars, prefVars, jobVars, batchVars, mainVars>>
    /\ UNCHANGED <<answerVars, textVars, fetch_hist, serviceVars>>

InitRadio ==
    /\ ExtractIdle /\ PrefIdle /\ JobIdle /\ BatchIdle /\ MainIdle
    /\ AnswerIdle /\ TextIdle /\ fetch_hist = <<>> /\ ServiceIdle
    /\ r_pc = "call"
    /\ r_options \in 1..MaxOptions
    /\ r_reply \in RadioReplies
    /\ r_clicked = 0
    /\ r_result = FALSE

NextRadio == RadioCall

SpecRadio == InitRadio /\ [][NextRadio]_vars

\* C14: option k is clicked only when the reply parses as the integer k with
\* 1 <= k <= N; for a reply that is no number or a number outside 1..N (0 and
\* the negative numbers among them) no option is clicked and the call fails.
C14_ClickedOptionIsReply ==
    r_pc = "done" =>
        LET parsed == ParseInt(r_reply)
            in_range == parsed.ok /\ 1 <= parsed.value /\ parsed.value <= r_options
        IN  /\ r_clicked # 0 => (in_range /\ r_clicked = parsed.value)
            /\ ~in_range => (r_clicked = 0 /\ ~r_result)

(***************************************************************************)
(* handle_text_input (src/job_processor.py:821-1111)                       *)
(*                                                                         *)
(* One round of the while loop is four steps: the loop test, the question  *)
(* read from the chat list, the answer asked of get_safe_response, and the *)
(* answer filled in and sent.  What the page shows at each step is the     *)
(* environment's choice.                                                   *)
(***************************************************************************)
max_sequential_questions == 15

QLowerDob == <<"date", "of", "birth">>

\* line 943, 947: the question that stands for a missing one
QBrief == <<"Please", "provide", "a", "brief", "response">>

\* The questions the chat list shows.
TextQuestions == {QNoticePeriod, QDateOfBirth, QLowerDob}

\* A mutant of TextLoopGoesOn: one round more.
TextLoopOneMore(in_seq, count) == in_seq /\ count < max_sequential_questions + 1

\* line 830: while in_qa_sequence and question_count < max_sequential_questions
TextLoopGoesOn(in_seq, count) == in_seq /\ count < max_sequential_questions

\* handle_text_input returns result.
TextReturn(result, h) ==
    /\ t_pc' = "done"
    /\ t_result' = result
    /\ t_hist' = h
    /\ UNCHANGED <<question_count, in_qa_sequence, t_question>>

\* The loop goes on at its test.
TextContinue(in_seq, h) ==
    /\ t_pc' = "loop"
    /\ in_qa_sequence' = in_seq
    /\ t_hist' = h
    /\ UNCHANGED <<question_count, t_question, t_result>>

\* lines 1087-1090 and 1095-1098: the return value of the two except clauses
PartialSuccess(count) == count > 1

\* What is left alone by every step of handle_text_input.
textFrame == <<extractVars, prefVars, jobVars, batchVars, mainVars,
               answerVars, radioVars, fetch_hist, serviceVars>>

\* lines 830-832 and 1100-1111: the loop test; after the loop a sequence of more
\* than one round is logged as success (an error of the logging leaves the
\* function)
TextLoop ==
    /\ t_pc = "loop"
    /\ IF TextLoopGoesOn(in_qa_sequence, question_count)
       THEN /\ question_count' = question_count + 1
            /\ t_pc' = "question"
            /\ t_question' = <<>>
            /\ t_hist' = [t_hist EXCEPT !.model_called = FALSE, !.response = <<>>,
                                        !.typed = <<>>, !.dob_filled = FALSE]
            /\ UNCHANGED <<in_qa_sequence, t_result>>
       ELSE IF question_count > 1
       THEN \E details_ok \in BOOLEAN :
               IF details_ok /\ job_log_ok
               THEN TextReturn(TRUE,
                        [t_hist EXCEPT !.record = "text_input_qa_sequence_completed"])
               ELSE /\ t_pc' = "raised"
                    /\ UNCHANGED <<question_count, in_qa_sequence, t_question,
                                   t_result, t_hist>>
       ELSE TextReturn(FALSE, t_hist)
    /\ UNCHANGED textFrame

\* lines 834-947: the last question of the chat list.  "error": the chat list is
\* not found or the question cannot be logged (lines 1092-1098); "no_items": the
\* list has no <li> (lines 905-908); "no_text": no question text, neither in
\* the list nor by the broad search
TextQuestion ==
    /\ t_pc = "question"
    /\ \E seen \in {"error", "no_items", "no_text", "question"}, q \in TextQuestions :
          IF seen = "error" THEN TextReturn(PartialSuccess(question_count), t_hist)
          ELSE IF seen = "no_items" THEN TextReturn(FALSE, t_hist)
          ELSE IF seen = "no_text" /\ question_count > 1
          THEN TextContinue(FALSE, t_hist)
          ELSE /\ t_question' = IF seen = "no_text" THEN QBrief ELSE q
               /\ t_pc' = "answer"
               /\ UNCHANGED <<question_count, in_qa_sequence, t_result, t_hist>>
    /\ UNCHANGED textFrame

\* line 949: response = get_safe_response(last_question_text, config), for
\* every question
TextAnswer ==
    /\ t_pc = "answer"
    /\ \E o \in ChatOutcomes :
          t_hist' = [t_hist EXCEPT !.model_called = TRUE,
                                   !.response = SafeAnswer(t_question, o)]
    /\ t_pc' = "fill"
    /\ UNCHANGED <<question_count, in_qa_sequence, t_question, t_result>>
    /\ UNCHANGED textFrame

\* line 1001: the special case of the date of birth (the match is case-sensitive)
IsDateOfBirth(question) == Contains(question, QDateOfBirth)

\* lines 952-1090: the input field is looked for, the answer filled in and sent,
\* the success indicators looked for.
\* input_field: a visible input field was found; dob_elements: the date control
\* exists; button_clicked: a send button was found and clicked; indicator: a
\* success indicator is displayed; logged: extract_job_details and save_job_log
\* raised nothing; fill_error: a driver call of lines 1003-1017 raised
TextFill ==
    /\ t_pc = "fill"
    /\ \E input_field \in BOOLEAN, dob_elements \in BOOLEAN, button_clicked \in BOOLEAN,
          indicator \in BOOLEAN, details_ok \in BOOLEAN, fill_error \in BOOLEAN :
          LET logged == details_ok /\ job_log_ok
              special == IsDateOfBirth(t_question) /\ dob_elements
              filled == [t_hist EXCEPT
                           !.dob_filled = special,
                           !.typed = IF special THEN <<>> ELSE t_hist.response,
                           !.submitted = @ \/ button_clicked,
                           !.indicator_seen = @ \/ indicator]
              success == [h \in {t_hist, filled} |->
                            [h EXCEPT !.indicator_seen = TRUE,
                                      !.record = "text_input_qa_sequence"]]
          IN  IF ~input_field
              THEN \* lines 975-998
                   IF indicator
                   THEN IF logged THEN TextReturn(TRUE, success[t_hist])
                        ELSE TextReturn(PartialSuccess(question_count),
                                        [t_hist EXCEPT !.indicator_seen = TRUE])
                   ELSE TextContinue(FALSE, t_hist)
              ELSE IF fill_error
              THEN \* lines 1084-1090
                   TextReturn(PartialSuccess(question_count), t_hist)
              ELSE \* lines 1000-1082
                   IF indicator /\ logged THEN TextReturn(TRUE, success[filled])
                   ELSE TextContinue(in_qa_sequence, filled)
    /\ UNCHANGED textFrame

\* One call of handle_text_input
HandleTextInput ==
    \/ TextLoop
    \/ TextQuestion
    \/ TextAnswer
    \/ TextFill

\* lines 823-828
TextEntered ==
    /\ t_pc = "loop"
    /\ question_count = 0
    /\ in_qa_sequence = TRUE
    /\ t_question = <<>>
    /\ t_result = FALSE
    /\ t_hist = NoTextHistory

InitText ==
    /\ ExtractIdle /\ PrefIdle /\ BatchIdle /\ MainIdle
    /\ AnswerIdle /\ RadioIdle /\ fetch_hist = <<>> /\ ServiceIdle
    /\ j_pc = "none"
    /\ job_error_count = 0
    /\ question_attempts = 0
    /\ j_result = FALSE
    /\ j_records = <<>>
    /\ job_log_ok \in BOOLEAN
    /\ hist = NoHistory
    /\ TextEntered

NextText == HandleTextInput

SpecText == InitText /\ [][NextText]_vars

(***************************************************************************)
(* The two loops of an application: one call of process_job                *)
(* (src/job_processor.py:1151-1311), or one call of handle_text_input      *)
(* (lines 821-1111).  In process_job the step JobText stands for a whole   *)
(* call of handle_text_input; the second kind of behaviour is that call    *)
(* round by round.                                                         *)
(***************************************************************************)

\* process_job is called on the one job of a batch.
InitJob ==
    /\ ExtractIdle /\ PrefIdle /\ MainIdle /\ HandlerIdle
    /\ b_pc = "job"
    /\ batch_links = <<JobA>>
    /\ job_batch = <<JobA>>
    /\ batch_i = 1
    /\ batch_success = 0
    /\ batch_failed = 0
    /\ processed_jobs = {}
    /\ max_applications = 1
    /\ classifier_always_no = FALSE
    /\ pref_log = <<>>
    /\ batch_hist = [NoBatchHistory EXCEPT !.len0 = 1, !.calls = <<JobA>>]
    /\ j_pc = "start"
    /\ job_error_count = 0
    /\ question_attempts = 0
    /\ j_result = FALSE
    /\ j_records = <<>>
    /\ job_log_ok = TRUE
    /\ hist = NoHistory

InitCalls == InitJob \/ InitText

NextCalls == ProcessJob \/ HandleTextInput

SpecCalls == InitCalls /\ [][NextCalls]_vars

\* A call is run by one thread, which does not stop between two steps.
SpecCallsFair == SpecCalls /\ WF_vars(NextCalls)

\* C13: process_job's question loop runs at most 10 iterations and a call of
\* handle_text_input at most 15 rounds, whatever the page and the model do, and
\* the call returns (or, for handle_text_input, is left by an error).
C13_LoopsBoundedAndReturn ==
    /\ [](/\ question_attempts <= max_question_attempts
          /\ question_count <= max_sequential_questions)
    /\ <>(j_pc = "returned" \/ t_pc \in {"done", "raised"})

\* process_job returned after the tenth iteration of its loop.
C13_Witness ==
    /\ j_pc = "returned"
    /\ question_attempts = max_question_attempts
    /\ hist.handler_called

(***************************************************************************)
(* Claims about handle_text_input (checked under SpecText)                 *)
(***************************************************************************)

\* C17: in a round whose question contains "Date of Birth" the model is not
\* asked, and no answer goes into the ordinary input field.
C17_DateOfBirthBypassesModel ==
    IsDateOfBirth(t_question) => (~t_hist.model_called /\ t_hist.typed = <<>>)

\* C18: without a success indicator the call reports success only when some
\* answer was filled in and sent during the call.
C18_SuccessNeedsSubmittedAnswer ==
    (t_pc = "done" /\ t_result /\ ~t_hist.indicator_seen) => t_hist.submitted

(***************************************************************************)
(* main (src/main.py:365-640): the loop of lines 472-627, one step per     *)
(* block of the iteration.  process_job is taken by its result alone; what *)
(* a fetch of listings returns is the environment's choice at that step, a *)
(* list free of duplicates as extract_job_links builds it.                 *)
(***************************************************************************)
\* The last page tried.  It is 20 in the code (src/main.py:469); the model
\* scales it down, keeping it above the 4 of line 541.
max_page_to_try == 5

MaxConfigRetries == 1   \* the largest config["max_retries"] drawn

fingerprint_window == 5
fingerprint_links == 10
min_repeats == 3

\* What extract_job_links can return for a search page.
ExtractResults == {<<>>, <<JobA, JobB, JobC>>, <<JobC, JobA>>}

\* [url for url in job_links if not is_job_processed(url)]
RECURSIVE Unprocessed(_)
Unprocessed(links) ==
    IF links = <<>> THEN <<>>
    ELSE IF is_job_processed(Head(links)) THEN Unprocessed(Tail(links))
    ELSE <<Head(links)>> \o Unprocessed(Tail(links))

\* list(set(links)): the elements once each, in the order the set yields them
Deduplicated(links) ==
    { l \in SeqsUpTo(Range(links), Cardinality(Range(links))) :
        NoDuplicates(l) /\ Range(l) = Range(links) }

\* hash(tuple(sorted(job_links[:10]))): lines 339-340
Fingerprint(links) == Range(SubSeq(links, 1, Min(fingerprint_links, Len(links))))

(***************************************************************************)
(* The fetches refresh_job_listings records (src/main.py:336-349), one     *)
(* after the other, and is_search_stuck (lines 353-363) after each         *)
(***************************************************************************)
MaxFetches == 6   \* listings that are not empty, fetched in one run

LinkNames == <<"n1", "n2", "n3", "n4", "n5", "n6", "n7", "n8", "n9", "n10">>

\* A listing of more links than the fingerprint takes.
LongListing(last) ==
    [i \in 1..fingerprint_links |-> <<"job-listings", LinkNames[i]>>] \o <<last>>

\* What extract_job_links can return to refresh_job_listings.
FetchedListings ==
    {<<>>, <<JobA, JobB>>, <<JobB, JobA>>, <<JobC>>, LongListing(JobA), LongListing(JobB)}

\* A mutant of TrackBatch: no fingerprint is ever dropped.
TrackBatchKeepAll(recent, links) ==
    IF links = <<>> THEN recent ELSE Append(recent, Fingerprint(links))

\* lines 336-349: a listing that is not empty leaves its fingerprint; the last
\* five are kept
TrackBatch(recent, links) ==
    IF links = <<>> THEN recent
    ELSE LET r == Append(recent, Fingerprint(links))
         IN  IF Len(r) > fingerprint_window THEN Tail(r) ELSE r

\* is_search_stuck: lines 353-363
is_search_stuck(recent) ==
    /\ Len(recent) >= min_repeats
    /\ Cardinality({ i \in DOMAIN recent : recent[i] = recent[Len(recent)] })
          >= min_repeats

\* lines 322-351: the tail of refresh_job_listings: the listing is extracted
\* and, when it is not empty, its fingerprint recorded
RecordFetch ==
    /\ Len(fetch_hist) < MaxFetches
    /\ \E links \in FetchedListings :
          /\ recent_job_batches' = TrackBatch(recent_job_batches, links)
          /\ fetch_hist' = IF links = <<>> THEN fetch_hist ELSE Append(fetch_hist, links)
    /\ UNCHANGED <<m_pc, unprocessed_jobs, successful_applications, failed_applications,
                   refresh_count, current_page, stuck_count, browser_reset_count,
                   has_experience_param, config_max_retries>>
    /\ UNCHANGED <<extractVars, prefVars, jobVars, batchVars>>
    /\ UNCHANGED <<answerVars, radioVars, textVars, serviceVars>>

InitStuck ==
    /\ ExtractIdle /\ PrefIdle /\ JobIdle /\ BatchIdle /\ MainIdle /\ HandlerIdle

NextStuck == RecordFetch

SpecStuck == InitStuck /\ [][NextStuck]_vars

\* The set of the first ten URLs of a listing.
FirstTenUrls(links) == { links[i] : i \in 1..Min(10, Len(links)) }

\* The fetches of fetch_hist, among the last five, that show what the last shows.
RepeatsOfLast ==
    LET n == Len(fetch_hist)
    IN  { i \in 1..n : /\ i > n - 5
                       /\ FirstTenUrls(fetch_hist[i]) = FirstTenUrls(fetch_hist[n]) }

\* C19: after any fetches that were not empty, is_search_stuck(3) is true when
\* the last three show the same first ten URLs in any order, and false when the
\* last fetch shows what fewer than three of the last five show.
C19_StuckIffThreeRepeats ==
    LET n == Len(fetch_hist)
    IN  /\ (n >= 3 /\ {n - 2, n - 1, n} \subseteq RepeatsOfLast)
              => is_search_stuck(recent_job_batches)
        /\ (n >= 1 /\ Cardinality(RepeatsOfLast) < 3)
              => ~is_search_stuck(recent_job_batches)

\* Six fetches, the last three alike but for the order and the eleventh link,
\* what they show having been shown by the first fetch as well.
C19_Witness ==
    /\ Len(fetch_hist) = 6
    /\ fetch_hist[6] # fetch_hist[5]
    /\ {4, 5, 6} \subseteq RepeatsOfLast
    /\ FirstTenUrls(fetch_hist[1]) # FirstTenUrls(fetch_hist[2])
    /\ is_search_stuck(recent_job_batches)

\* max_refresh_attempts: line 466
max_refresh_attempts == config_max_retries * 5

\* lines 472-487 and 629-640: the loop's condition; the session check, a new
\* browser when the session is lost; an iteration with and without jobs
MainHead ==
    /\ m_pc = "head"
    /\ IF successful_applications >= max_applications
       THEN /\ m_pc' = "done"
            /\ UNCHANGED <<browser_reset_count, batchVars>>
       ELSE \E session_valid \in BOOLEAN, browser_created \in BOOLEAN :
               IF (~session_valid \/ browser_reset_count >= 5) /\ ~browser_created
               THEN \* line 487: continue
                    UNCHANGED <<m_pc, browser_reset_count, batchVars>>
               ELSE /\ browser_reset_count' =
                         IF ~session_valid \/ browser_reset_count >= 5
                         THEN 0 ELSE browser_reset_count
                    /\ IF unprocessed_jobs # <<>>
                       THEN \* line 492: process_job_batch(driver, unprocessed_jobs, config)
                            /\ m_pc' = "in_batch"
                            /\ b_pc' = "loop"
                            /\ batch_links' = unprocessed_jobs
                            /\ job_batch' = FirstBatch(unprocessed_jobs)
                            /\ batch_i' = 1
                            /\ batch_success' = 0
                            /\ batch_failed' = 0
                            /\ batch_hist' = [batch_hist EXCEPT
                                                 !.len0 = Len(unprocessed_jobs)]
                            /\ UNCHANGED <<processed_jobs, max_applications,
                                           classifier_always_no, pref_log>>
                       ELSE /\ m_pc' = "fetch"
                            /\ UNCHANGED batchVars
    /\ UNCHANGED <<unprocessed_jobs, successful_applications, failed_applications,
                   refresh_count, current_page, stuck_count, recent_job_batches,
                   has_experience_param, config_max_retries>>
    /\ UNCHANGED <<extractVars, prefVars, jobVars>>
    /\ UNCHANGED handlerVars

\* process_job (src/job_processor.py:1151-1311) by its result: it returns True
\* or False and lets no error out
ProcessJobSummary ==
    /\ m_pc = "in_batch"
    /\ j_pc = "start"
    /\ j_pc' = "returned"
    /\ j_result' \in BOOLEAN
    /\ UNCHANGED <<job_error_count, question_attempts, j_records, job_log_ok, hist>>
    /\ UNCHANGED <<extractVars, prefVars, batchVars, mainVars>>
    /\ UNCHANGED handlerVars

\* lines 492-507: the batch has returned; its counts are added; the loop is
\* left when the target is reached
MainAfterBatch ==
    /\ m_pc = "in_batch"
    /\ b_pc = "returned"
    /\ unprocessed_jobs' = batch_links
    /\ successful_applications' = successful_applications + batch_success
    /\ failed_applications' = failed_applications + batch_failed
    /\ browser_reset_count' =
          IF batch_success > 0 \/ batch_failed > 0 THEN 0 ELSE browser_reset_count
    /\ m_pc' = IF successful_applications' >= max_applications THEN "done" ELSE "fetch"
    /\ b_pc' = "off"
    /\ UNCHANGED <<batch_links, job_batch, batch_i, batch_success, batch_failed,
                   processed_jobs, max_applications, classifier_always_no, pref_log,
                   batch_hist>>
    /\ UNCHANGED <<refresh_count, current_page, stuck_count, recent_job_batches,
                   has_experience_param, config_max_retries>>
    /\ UNCHANGED <<extractVars, prefVars, jobVars>>
    /\ UNCHANGED handlerVars

\* lines 510-567 and 592: no job is left: the next page is fetched
MainNextPage ==
    /\ m_pc = "fetch"
    /\ Len(unprocessed_jobs) = 0
    /\ current_page' = current_page + 1
    /\ IF current_page + 1 > max_page_to_try
       THEN /\ m_pc' = "done"
            /\ UNCHANGED <<unprocessed_jobs, refresh_count, browser_reset_count,
                           recent_job_batches>>
       ELSE \E new_job_links \in ExtractResults :
              /\ recent_job_batches' = TrackBatch(recent_job_batches, new_job_links)
              /\ IF Unprocessed(new_job_links) = <<>> /\ current_page + 1 < max_page_to_try
                 THEN \* line 538: continue
                      /\ m_pc' = "head"
                      /\ UNCHANGED <<unprocessed_jobs, refresh_count, browser_reset_count>>
                 ELSE IF /\ Unprocessed(new_job_links) = <<>>
                         /\ current_page + 1 > 4
                         /\ has_experience_param
                 THEN \* lines 543-559: the search with another experience value
                      \E session_error \in BOOLEAN, modified_links \in ExtractResults :
                         IF session_error
                         THEN \* lines 561-564
                              /\ browser_reset_count' = browser_reset_count + 1
                              /\ m_pc' = "head"
                              /\ UNCHANGED <<unprocessed_jobs, refresh_count>>
                         ELSE IF Unprocessed(modified_links) = <<>>
                         THEN /\ m_pc' = "done"
                              /\ UNCHANGED <<unprocessed_jobs, refresh_count,
                                             browser_reset_count>>
                         ELSE /\ unprocessed_jobs' = Unprocessed(modified_links)
                              /\ refresh_count' = refresh_count + 1
                              /\ m_pc' = "stuck"
                              /\ UNCHANGED browser_reset_count
                 ELSE /\ unprocessed_jobs' = Unprocessed(new_job_links)
                      /\ refresh_count' = refresh_count + 1
                      /\ m_pc' = "stuck"
                      /\ UNCHANGED browser_reset_count
    /\ UNCHANGED <<successful_applications, failed_applications, stuck_count,
                   has_experience_param, config_max_retries>>
    /\ UNCHANGED <<extractVars, prefVars, jobVars, batchVars>>
    /\ UNCHANGED handlerVars

\* lines 570-589 and 592: jobs are left: every third round more are fetched
\* from the page after the current one and joined to the list
MainPeriodicRefresh ==
    /\ m_pc = "fetch"
    /\ Len(unprocessed_jobs) # 0
    /\ IF refresh_count % 3 = 0
       THEN /\ refresh_count' = refresh_count + 2
            /\ IF current_page + 1 <= max_page_to_try
               THEN \E new_job_links \in ExtractResults :
                      /\ recent_job_batches' =
                            TrackBatch(recent_job_batches, new_job_links)
                      /\ IF Unprocessed(new_job_links) # <<>>
                         THEN /\ current_page' = current_page + 1
                              /\ unprocessed_jobs' \in
                                    Deduplicated(unprocessed_jobs
                                                 \o Unprocessed(new_job_links))
                         ELSE UNCHANGED <<current_page, unprocessed_jobs>>
               ELSE UNCHANGED <<current_page, unprocessed_jobs, recent_job_batches>>
       ELSE /\ refresh_count' = refresh_count + 1
            /\ UNCHANGED <<current_page, unprocessed_jobs, recent_job_batches>>
    /\ m_pc' = "stuck"
    /\ UNCHANGED <<successful_applications, failed_applications, stuck_count,
                   browser_reset_count, has_experience_param, config_max_retries>>
    /\ UNCHANGED <<extractVars, prefVars, jobVars, batchVars>>
    /\ UNCHANGED handlerVars

\* line 625: if not unprocessed_jobs and refresh_count >= max_refresh_attempts: break
AfterRound ==
    IF unprocessed_jobs = <<>> /\ refresh_count >= max_refresh_attempts
    THEN "done" ELSE "head"

\* lines 595-627: the stuck check and the end of the round.  The driver calls
\* of lines 606-610 stand in no try: an error there leaves main.
MainStuckCheck ==
    /\ m_pc = "stuck"
    /\ IF is_search_stuck(recent_job_batches)
       THEN IF stuck_count + 1 >= 3 /\ has_experience_param
            THEN \E driver_error \in BOOLEAN, modified_links \in ExtractResults :
                    IF driver_error
                    THEN /\ m_pc' = "crashed"
                         /\ stuck_count' = stuck_count + 1
                    ELSE /\ stuck_count' = 0
                         /\ m_pc' = IF Unprocessed(modified_links) = <<>>
                                    THEN "done" ELSE AfterRound
            ELSE /\ stuck_count' = stuck_count + 1
                 /\ m_pc' = AfterRound
       ELSE /\ m_pc' = AfterRound
            /\ UNCHANGED stuck_count
    /\ UNCHANGED <<unprocessed_jobs, successful_applications, failed_applications,
                   refresh_count, current_page, browser_reset_count,
                   recent_job_batches, has_experience_param, config_max_retries>>
    /\ UNCHANGED <<extractVars, prefVars, jobVars, batchVars>>
    /\ UNCHANGED handlerVars

\* lines 410-470: the processed set is loaded, the first listing extracted and
\* filtered, the counters set
Init ==
    /\ ExtractIdle /\ PrefIdle /\ JobIdle /\ HandlerIdle
    /\ b_pc = "off"
    /\ batch_links = <<>>
    /\ job_batch = <<>>
    /\ batch_i = 1
    /\ batch_success = 0
    /\ batch_failed = 0
    /\ processed_jobs \in SUBSET {JobA}
    /\ max_applications \in 1..MaxTarget
    /\ classifier_always_no = FALSE
    /\ pref_log = <<>>
    /\ batch_hist = NoBatchHistory
    /\ m_pc = "head"
    /\ \E job_links0 \in ExtractResults : unprocessed_jobs = Unprocessed(job_links0)
    /\ successful_applications = 0
    /\ failed_applications = 0
    /\ refresh_count = 0
    /\ current_page = 1
    /\ stuck_count = 0
    /\ browser_reset_count = 0
    /\ recent_job_batches = <<>>
    /\ has_experience_param \in BOOLEAN
    /\ config_max_retries \in 0..MaxConfigRetries

Next ==
    \/ MainHead
    \/ BatchStep
    \/ ProcessJobSummary
    \/ BatchRecord
    \/ BatchReturn
    \/ MainAfterBatch
    \/ MainNextPage
    \/ MainPeriodicRefresh
    \/ MainStuckCheck

Spec == Init /\ [][Next]_vars

(***************************************************************************)
(* Claims about the orchestrator (checked under Spec)                      *)
(***************************************************************************)

\* C1: process_job is never called with a URL that is in the processed set at
\* that moment, and so with no URL twice in a run, whatever batches, fetches,
\* refreshes and session resets the run is made of.
C1_NoReprocessing ==
    /\ ~batch_hist.stale_call
    /\ NoDuplicates(batch_hist.calls)
    /\ (j_pc \in {"start", "returned"} => CurrentJob \notin processed_jobs)

\* A run that called process_job in two batches, a fetch having offered again
\* a URL already processed.
C1_Witness ==
    /\ Len(batch_hist.calls) = 3
    /\ current_page > 1
    /\ refresh_count > 0
    /\ \E i \in DOMAIN recent_job_batches :
          recent_job_batches[i] \cap processed_jobs # {}

\* C20: whenever the last fingerprint stands three times among those recorded,
\* the stuck check of that iteration goes to the search with another experience
\* value (after which stuck_count is 0, or main is left by the error of the
\* navigation); never more than five fingerprints are recorded.
C20_StuckMeansMutation ==
    [][/\ (m_pc = "stuck" /\ is_search_stuck(recent_job_batches))
             => (stuck_count' = 0 \/ m_pc' = "crashed")
       /\ Len(recent_job_batches') <= fingerprint_window]_vars

(***************************************************************************)
(* main's loop (src/main.py:472-627) with the jobs unnamed: the list of    *)
(* pending jobs is taken by its length, a listing by its first URLs and    *)
(* the number of its jobs that are not processed, process_job_batch by     *)
(* its counts.  failed_applications, which the loop does not read, is left *)
(* at rest.                                                                *)
(***************************************************************************)
MaxFresh == 4   \* unprocessed jobs one listing brings

\* What refresh_job_listings can return: links, the first URLs of the listing;
\* fresh, the number of its URLs that are not processed.
RoundFetches ==
    { [links |-> <<JobA, JobB>>, fresh |-> k] : k \in 0..MaxFresh }
    \cup { [links |-> <<JobC>>, fresh |-> 0], [links |-> <<>>, fresh |-> 0] }

\* A mutant of PageWithinCeiling: the periodic refresh looks at no ceiling.
PageAnyAllowed(page) == TRUE

\* line 576: if new_page <= max_page_to_try
PageWithinCeiling(page) == page <= max_page_to_try

\* line 570: elif refresh_count % 3 == 0
PeriodicDue(count) == count % 3 = 0

\* line 625, the list by its length
RoundAfter ==
    IF pending = 0 /\ refresh_count >= max_refresh_attempts THEN "done" ELSE "head"

\* What no step of the loop with the jobs unnamed touches.
roundFrame == <<extractVars, prefVars, jobVars, answerVars, radioVars, textVars,
                fetch_hist, unprocessed_jobs, failed_applications,
                has_experience_param, config_max_retries,
                b_pc, batch_links, job_batch, batch_i, batch_success, batch_failed,
                processed_jobs, max_applications, classifier_always_no, pref_log,
                batch_hist, quietVars>>

\* lines 472-490: the loop's condition and the session check
RoundHead ==
    /\ m_pc = "head"
    /\ IF successful_applications >= max_applications
       THEN /\ m_pc' = "done"
            /\ UNCHANGED browser_reset_count
       ELSE \E session_valid \in BOOLEAN, browser_created \in BOOLEAN :
               IF (~session_valid \/ browser_reset_count >= 5) /\ ~browser_created
               THEN \* line 487: continue
                    UNCHANGED <<m_pc, browser_reset_count>>
               ELSE /\ browser_reset_count' =
                         IF ~session_valid \/ browser_reset_count >= 5
                         THEN 0 ELSE browser_reset_count
                    /\ m_pc' = IF pending > 0 THEN "batch" ELSE "fetch"
    /\ UNCHANGED <<successful_applications, refresh_count, current_page, stuck_count,
                   recent_job_batches, pending, round_hist>>
    /\ UNCHANGED roundFrame

\* lines 490-507 with process_job_batch (lines 72-131): the first jobs of the
\* list, BatchCap at most, are taken off it; the batch stops at
\* max_applications successes
RoundBatch ==
    /\ m_pc = "batch"
    /\ LET taken == Min(BatchCap, pending)
       IN  \E successes \in 0..Min(taken, max_applications) :
              /\ successful_applications' = successful_applications + successes
              /\ pending' = pending - taken
              /\ browser_reset_count' = 0
              /\ m_pc' = IF successful_applications + successes >= max_applications
                         THEN "done" ELSE "fetch"
    /\ UNCHANGED <<refresh_count, current_page, stuck_count, recent_job_batches,
                   round_hist>>
    /\ UNCHANGED roundFrame

\* lines 510-567 and 592: no job is left: the next page is fetched
RoundNextPage ==
    /\ m_pc = "fetch"
    /\ pending = 0
    /\ current_page' = current_page + 1
    /\ IF current_page + 1 > max_page_to_try
       THEN /\ m_pc' = "done"
            /\ UNCHANGED <<refresh_count, browser_reset_count, recent_job_batches,
                           pending, round_hist>>
       ELSE \E o \in RoundFetches :
              LET h == [round_hist EXCEPT !.last_page = current_page + 1,
                                          !.since_refresh = -1]
              IN
              /\ recent_job_batches' = TrackBatch(recent_job_batches, o.links)
              /\ IF o.fresh = 0 /\ current_page + 1 < max_page_to_try
                 THEN \* line 538: continue
                      /\ m_pc' = "head"
                      /\ round_hist' = h
                      /\ UNCHANGED <<refresh_count, browser_reset_count, pending>>
                 ELSE IF o.fresh = 0 /\ current_page + 1 > 4 /\ has_experience_param
                 THEN \* lines 543-564: the search with another experience value
                      \E session_error \in BOOLEAN, modified_fresh \in 0..MaxFresh :
                         IF session_error
                         THEN /\ browser_reset_count' = browser_reset_count + 1
                              /\ m_pc' = "head"
                              /\ round_hist' = h
                              /\ UNCHANGED <<refresh_count, pending>>
                         ELSE IF modified_fresh = 0
                         THEN /\ m_pc' = "done"
                              /\ round_hist' = [h EXCEPT !.mutation_empty = TRUE]
                              /\ UNCHANGED <<refresh_count, browser_reset_count, pending>>
                         ELSE /\ pending' = modified_fresh
                              /\ refresh_count' = refresh_count + 1
                              /\ m_pc' = "stuck"
                              /\ round_hist' = h
                              /\ UNCHANGED browser_reset_count
                 ELSE /\ pending' = o.fresh
                      /\ refresh_count' = refresh_count + 1
                      /\ m_pc' = "stuck"
                      /\ round_hist' = h
                      /\ UNCHANGED browser_reset_count
    /\ UNCHANGED <<successful_applications, stuck_count>>
    /\ UNCHANGED roundFrame

\* lines 569-592: jobs are left: when the refresh counter is a multiple of 3
\* more are fetched from the page after the current one and joined to the list
\* (list(set(...)) keeps between the longer of the two and their sum)
RoundPeriodicRefresh ==
    /\ m_pc = "fetch"
    /\ pending > 0
    /\ IF PeriodicDue(refresh_count)
       THEN /\ refresh_count' = refresh_count + 2
            /\ IF PageWithinCeiling(current_page + 1)
               THEN \E o \in RoundFetches :
                      /\ recent_job_batches' = TrackBatch(recent_job_batches, o.links)
                      /\ round_hist' = [round_hist EXCEPT
                                           !.gap = round_hist.since_refresh,
                                           !.since_refresh = 0,
                                           !.last_page = current_page + 1]
                      /\ IF o.fresh > 0
                         THEN /\ current_page' = current_page + 1
                              /\ \E joined \in 0..o.fresh :
                                    pending' = IF pending >= o.fresh
                                               THEN pending + joined
                                               ELSE o.fresh + Min(joined, pending)
                         ELSE UNCHANGED <<current_page, pending>>
               ELSE /\ round_hist' = [round_hist EXCEPT
                                         !.gap = round_hist.since_refresh,
                                         !.since_refresh = 0]
                    /\ UNCHANGED <<current_page, pending, recent_job_batches>>
       ELSE /\ refresh_count' = refresh_count + 1
            /\ round_hist' = [round_hist EXCEPT
                                 !.since_refresh = IF @ < 0 THEN @ ELSE Min(@ + 1, 3)]
            /\ UNCHANGED <<current_page, pending, recent_job_batches>>
    /\ m_pc' = "stuck"
    /\ UNCHANGED <<successful_applications, stuck_count, browser_reset_count>>
    /\ UNCHANGED roundFrame

\* lines 595-627: the stuck check and the end of the round.  The driver calls
\* of lines 608-612 stand in no try: an error there leaves main.
RoundStuckCheck ==
    /\ m_pc = "stuck"
    /\ IF is_search_stuck(recent_job_batches)
       THEN IF stuck_count + 1 >= 3 /\ has_experience_param
            THEN \E driver_error \in BOOLEAN, modified_fresh \in 0..MaxFresh :
                    IF driver_error
                    THEN /\ m_pc' = "crashed"
                         /\ stuck_count' = stuck_count + 1
                         /\ UNCHANGED round_hist
                    ELSE /\ stuck_count' = 0
                         /\ m_pc' = IF modified_fresh = 0 THEN "done" ELSE RoundAfter
                         /\ round_hist' = [round_hist EXCEPT
                                              !.mutation_empty = (modified_fresh = 0)]
            ELSE /\ stuck_count' = stuck_count + 1
                 /\ m_pc' = RoundAfter
                 /\ UNCHANGED round_hist
       ELSE /\ m_pc' = RoundAfter
            /\ UNCHANGED <<stuck_count, round_hist>>
    /\ UNCHANGED <<successful_applications, refresh_count, current_page,
                   browser_reset_count, recent_job_batches, pending>>
    /\ UNCHANGED roundFrame

\* lines 459-470: the first listing is filtered, the counters set
InitRounds ==
    /\ ExtractIdle /\ PrefIdle /\ JobIdle /\ AnswerIdle /\ RadioIdle /\ TextIdle
    /\ fetch_hist = <<>>
    /\ b_pc = "off"
    /\ batch_links = <<>>
    /\ job_batch = <<>>
    /\ batch_i = 1
    /\ batch_success = 0
    /\ batch_failed = 0
    /\ processed_jobs = {}
    /\ max_applications \in 1..MaxTarget
    /\ classifier_always_no = FALSE
    /\ pref_log = <<>>
    /\ batch_hist = NoBatchHistory
    /\ m_pc = "head"
    /\ unprocessed_jobs = <<>>
    /\ pending \in 0..MaxFresh
    /\ successful_applications = 0
    /\ failed_applications = 0
    /\ refresh_count = 0
    /\ current_page = 1
    /\ stuck_count = 0
    /\ browser_reset_count = 0
    /\ recent_job_batches = <<>>
    /\ has_experience_param \in BOOLEAN
    /\ config_max_retries \in 0..MaxConfigRetries
    /\ round_hist = NoRoundHistory
    /\ SafeIdle /\ SessIdle /\ LogIdle /\ FileIdle /\ StartIdle /\ ChatIdle /\ PendIdle /\ UrlIdle /\ LockIdle

NextRounds ==
    \/ RoundHead
    \/ RoundBatch
    \/ RoundNextPage
    \/ RoundPeriodicRefresh
    \/ RoundStuckCheck

SpecRounds == InitRounds /\ [][NextRounds]_vars

\* main is one thread: the loop does not stop between two steps, and a new
\* browser session is created in the end.
SpecRoundsFair == SpecRounds /\ WF_vars(NextRounds)

(***************************************************************************)
(* Claims about main's loop (checked under SpecRounds)                     *)
(***************************************************************************)

\* C21: while jobs stay pending, two batches without a periodic refresh lie
\* between two periodic refreshes that follow each other.
C21_RefreshEveryThirdBatch ==
    round_hist.gap \in {-1, 2}

\* The loop has ended.
RoundsOver == m_pc \in {"done", "crashed"}

\* C22: the loop ends, and when it has ended the target is reached, or the page
\* number is above the ceiling, or the refresh counter is at its ceiling with
\* no job pending, or a search with another experience value found no job.
C22_LoopEndsForAReason ==
    /\ <>RoundsOver
    /\ [](RoundsOver =>
            \/ successful_applications >= max_applications
            \/ current_page > max_page_to_try
            \/ (pending = 0 /\ refresh_count >= max_refresh_attempts)
            \/ round_hist.mutation_empty)

\* C23: refresh_job_listings is never called with a page number above the
\* ceiling, and current_page is above the ceiling only when the loop has been
\* left for it.
C23_NoFetchAboveCeiling ==
    /\ round_hist.last_page <= max_page_to_try
    /\ (current_page > max_page_to_try => m_pc = "done")

\* The last page was fetched, by a periodic refresh, and the loop left at the
\* page after it.
C23_Witness ==
    /\ round_hist.last_page = max_page_to_try
    /\ round_hist.gap >= 0
    /\ current_page = max_page_to_try + 1
    /\ m_pc = "done"

(***************************************************************************)
(* safe_browser_operation (src/main.py:142-193)                            *)
(*                                                                         *)
(* One call, attempt by attempt.  An attempt is one pass of the while      *)
(* loop: the probe of is_session_valid, the new session when the probe     *)
(* fails, and the operation.  The environment chooses what each browser    *)
(* call does.                                                              *)
(***************************************************************************)
op_max_retries == 3   \* line 144: max_retries = 3

OpResults == {"r1", "r2"}   \* values an operation can return

\* A mutant of Exhausted: one more attempt is allowed.
ExhaustedLate(count) == count >= op_max_retries + 1

\* lines 176 and 190: if retry_count >= max_retries: raise
Exhausted(count) == count >= op_max_retries

\* The events of so_log that are a run of the operation.
RunEvents == {"run_ok", "run_session_error", "run_driver_error"}

safeFrame == <<restVars, roundVars, sessVars, logVars, fileVars, startVars, chatVars, pendVars, urlVars, lockVars>>

\* lines 168-192: an attempt has raised a driver error; session_error tells the
\* first except clause from the second.  In the first one a new session is
\* created before the next attempt (lines 179-185), in no try of its own.
SafeOpFailed(log, session_error) ==
    /\ retry_count' = retry_count + 1
    /\ so_result' = "none"
    /\ IF Exhausted(retry_count + 1)
       THEN /\ so_pc' = "raised"
            /\ so_log' = log
            /\ so_session' = "invalid"
       ELSE IF session_error
       THEN \E created \in BOOLEAN :
               /\ so_pc' = IF created THEN "probe" ELSE "raised"
               /\ so_log' = log \o <<"quit", IF created THEN "create" ELSE "create_failed">>
               /\ so_session' = IF created THEN "valid" ELSE "invalid"
       ELSE /\ so_pc' = "probe"
            /\ so_log' = log
            /\ \E s \in {"valid", "invalid"} : so_session' = s

\* lines 148-164: the probe and, when the session is invalid, the new session
SafeOpProbe ==
    /\ so_pc = "probe"
    /\ IF so_session = "valid"
       THEN /\ so_pc' = "run"
            /\ so_log' = Append(so_log, "probe_valid")
            /\ UNCHANGED <<retry_count, so_session, so_result>>
       ELSE \E created \in BOOLEAN, reached \in BOOLEAN :
               LET log == so_log \o <<"probe_invalid", "quit">>
               IN  IF ~created
                   THEN SafeOpFailed(Append(log, "create_failed"), FALSE)
                   ELSE IF so_recovery_url /\ ~reached
                   THEN SafeOpFailed(log \o <<"create", "goto_failed">>, FALSE)
                   ELSE /\ so_pc' = "run"
                        /\ so_session' = "valid"
                        /\ so_log' = log \o (IF so_recovery_url
                                             THEN <<"create", "goto">>
                                             ELSE <<"create">>)
                        /\ UNCHANGED <<retry_count, so_result>>
    /\ UNCHANGED so_recovery_url
    /\ UNCHANGED safeFrame

\* line 167: return operation_func(driver, *args, **kwargs)
SafeOpRun ==
    /\ so_pc = "run"
    /\ \/ \E r \in OpResults :
             /\ so_pc' = "returned"
             /\ so_result' = r
             /\ so_log' = Append(so_log, "run_ok")
             /\ UNCHANGED <<retry_count, so_session>>
       \/ SafeOpFailed(Append(so_log, "run_session_error"), TRUE)
       \/ SafeOpFailed(Append(so_log, "run_driver_error"), FALSE)
    /\ UNCHANGED so_recovery_url
    /\ UNCHANGED safeFrame

\* The call is made with a session in either state.
InitSafeOp ==
    /\ ExtractIdle /\ PrefIdle /\ JobIdle /\ BatchIdle /\ MainIdle
    /\ AnswerIdle /\ RadioIdle /\ TextIdle /\ fetch_hist = <<>>
    /\ RoundIdle /\ SessIdle /\ LogIdle /\ FileIdle /\ StartIdle /\ ChatIdle /\ PendIdle /\ UrlIdle /\ LockIdle
    /\ so_pc = "probe"
    /\ retry_count = 0
    /\ so_session \in {"valid", "invalid"}
    /\ so_recovery_url \in BOOLEAN
    /\ so_result = "none"
    /\ so_log = <<>>

NextSafeOp ==
    \/ SafeOpProbe
    \/ SafeOpRun

SpecSafeOp == InitSafeOp /\ [][NextSafeOp]_vars

\* The number of entries of log that lie in set.
RECURSIVE CountIn(_, _)
CountIn(log, set) ==
    IF log = <<>> THEN 0
    ELSE (IF Head(log) \in set THEN 1 ELSE 0) + CountIn(Tail(log), set)

\* The index of the last entry of log before i that lies in set, 0 if none.
RECURSIVE LastBefore(_, _, _)
LastBefore(log, i, set) ==
    IF i <= 1 THEN 0
    ELSE IF log[i - 1] \in set THEN i - 1
    ELSE LastBefore(log, i - 1, set)

MaxSessions == 4   \* sessions one run can create

SessionIds == 1..MaxSessions

FreeIds(ss) == { i \in SessionIds : ss[i] = "none" }

\* The session setup_browser creates next.
NewId(ss) == CHOOSE i \in FreeIds(ss) : \A j \in FreeIds(ss) : i <= j

\* The session created last, 0 if none.
Newest(ss) ==
    IF \A i \in SessionIds : ss[i] = "none" THEN 0
    ELSE CHOOSE i \in SessionIds : /\ ss[i] # "none"
                                  /\ \A j \in SessionIds : ss[j] # "none" => j <= i

\* driver.quit() / close_browser(driver), errors swallowed
Quit(ss, d) == [ss EXCEPT ![d] = "quit"]

\* setup_browser(...) has returned a driver
Created(ss) == [ss EXCEPT ![NewId(ss)] = "live"]

\* lines 272-283, 351 and 522-526: refresh_job_listings returns the list alone,
\* so main's driver stays what it was
RefreshReturn(caller, callee) == caller

\* is_session_valid(driver), lines 133-140
SessionValid(ss, d) == ss[d] = "live"

sessFrame == <<restVars, roundVars, safeVars, logVars, fileVars, startVars, chatVars, pendVars, urlVars, lockVars>>

\* A browser dies: it crashes or its window is closed.
SessDie ==
    /\ ss_pc # "off"
    /\ \E i \in SessionIds :
          /\ sessions[i] = "live"
          /\ sessions' = [sessions EXCEPT ![i] = "dead"]
    /\ UNCHANGED <<ss_pc, main_driver, local_driver, ss_hist>>
    /\ UNCHANGED sessFrame

\* lines 473-487: the check at the head of the loop
SessHead ==
    /\ ss_pc = "head"
    /\ IF SessionValid(sessions, main_driver)
       THEN /\ ss_pc' = "batch"
            /\ UNCHANGED <<sessions, main_driver>>
       ELSE \E created \in BOOLEAN :
               IF created /\ FreeIds(sessions) # {}
               THEN /\ sessions' = Created(Quit(sessions, main_driver))
                    /\ main_driver' = NewId(sessions)
                    /\ ss_pc' = "batch"
               ELSE \* line 487: continue
                    /\ sessions' = Quit(sessions, main_driver)
                    /\ UNCHANGED <<main_driver, ss_pc>>
    /\ UNCHANGED <<local_driver, ss_hist>>
    /\ UNCHANGED sessFrame

\* lines 490-502: process_job_batch calls the browser through main's driver
SessBatch ==
    /\ ss_pc = "batch"
    /\ ss_hist' = [ss_hist EXCEPT
                      !.stale_use = @ \/ main_driver # Newest(sessions)]
    /\ \/ /\ ss_pc' = "navigate"
          /\ local_driver' = main_driver
       \/ \* line 502: continue after a session error
          /\ ss_pc' = "head"
          /\ UNCHANGED local_driver
    /\ UNCHANGED <<sessions, main_driver>>
    /\ UNCHANGED sessFrame

\* lines 195-231, called at lines 272 and 282: navigate_to_url_safely with
\* refresh_job_listings' driver; got says whether driver.get returned
SessNavigate ==
    /\ ss_pc = "navigate"
    /\ \E created \in BOOLEAN, got \in BOOLEAN, recreated \in BOOLEAN, got_again \in BOOLEAN :
          LET valid == SessionValid(sessions, local_driver)
              \* lines 198-205
              s1 == IF valid THEN sessions ELSE Quit(sessions, local_driver)
              made1 == ~valid /\ created /\ FreeIds(s1) # {}
              s2 == IF made1 THEN Created(s1) ELSE s1
              d2 == IF made1 THEN NewId(s1) ELSE local_driver
              first_ok == (valid \/ made1) /\ got
              \* lines 212-227
              s3 == Quit(s2, d2)
              made2 == recreated /\ FreeIds(s3) # {}
              s4 == IF made2 THEN Created(s3) ELSE s3
              d4 == IF made2 THEN NewId(s3) ELSE d2
          IN  IF first_ok
              THEN /\ sessions' = s2
                   /\ local_driver' = d2
                   /\ ss_pc' = "extract"
                   /\ UNCHANGED main_driver
              ELSE IF made2 /\ got_again
              THEN /\ sessions' = s4
                   /\ local_driver' = d4
                   /\ ss_pc' = "extract"
                   /\ UNCHANGED main_driver
              ELSE \* lines 229-231 and 274-276: (driver, False), the list is empty
                   /\ sessions' = s4
                   /\ local_driver' = 0
                   /\ main_driver' = RefreshReturn(main_driver, d4)
                   /\ ss_pc' = "stuck"
    /\ UNCHANGED ss_hist
    /\ UNCHANGED sessFrame

\* lines 320-334 and 351: extract_job_links, and after an error a new session,
\* the old one not quit
SessExtract ==
    /\ ss_pc = "extract"
    /\ \E extracted \in BOOLEAN, created \in BOOLEAN :
          IF extracted \/ ~created \/ FreeIds(sessions) = {}
          THEN /\ main_driver' = RefreshReturn(main_driver, local_driver)
               /\ UNCHANGED <<sessions, ss_hist>>
          ELSE /\ sessions' = Created(sessions)
               /\ main_driver' = RefreshReturn(main_driver, NewId(sessions))
               /\ ss_hist' = [ss_hist EXCEPT
                                 !.created_over = @ \/ sessions[local_driver] # "quit"]
    /\ local_driver' = 0
    /\ ss_pc' = "stuck"
    /\ UNCHANGED sessFrame

\* lines 595-627: the stuck branch may call driver.get through main's driver
SessStuck ==
    /\ ss_pc = "stuck"
    /\ \E mutated \in BOOLEAN :
          ss_hist' = [ss_hist EXCEPT
                         !.stale_use = @ \/ (mutated /\ main_driver # Newest(sessions))]
    /\ ss_pc' = "head"
    /\ UNCHANGED <<sessions, main_driver, local_driver>>
    /\ UNCHANGED sessFrame

\* lines 421-456: the first session is there when the loop begins
InitSessions ==
    /\ ExtractIdle /\ PrefIdle /\ JobIdle /\ BatchIdle /\ MainIdle
    /\ AnswerIdle /\ RadioIdle /\ TextIdle /\ fetch_hist = <<>>
    /\ RoundIdle /\ SafeIdle /\ LogIdle /\ FileIdle /\ StartIdle /\ ChatIdle /\ PendIdle /\ UrlIdle /\ LockIdle
    /\ ss_pc = "head"
    /\ sessions = [i \in SessionIds |-> IF i = 1 THEN "live" ELSE "none"]
    /\ main_driver = 1
    /\ local_driver = 0
    /\ ss_hist = NoSessionHistory

NextSessions ==
    \/ SessDie
    \/ SessHead
    \/ SessBatch
    \/ SessNavigate
    \/ SessExtract
    \/ SessStuck

SpecSessions == InitSessions /\ [][NextSessions]_vars

\* The sessions that are live.
LiveSessions == { i \in SessionIds : sessions[i] = "live" }

\* C25: one session at most is live; a session is created only when the one
\* before it has been quit; and main calls the browser only through the
\* session created last.
C25_OneSessionActedOn ==
    /\ Cardinality(LiveSessions) <= 1
    /\ ~ss_hist.created_over
    /\ ~ss_hist.stale_use

(***************************************************************************)
(* save_job_log (src/logger.py:41-86)                                      *)
(*                                                                         *)
(* Calls of save_job_log on one log file, the process restarted between    *)
(* calls.  A call keeps nothing in memory: it reads the file, appends and   *)
(* writes the file whole.                                                  *)
(***************************************************************************)
MaxLogCalls == 3   \* calls of save_job_log
MaxRuns == 3       \* process runs

LogStatuses == {"success", "failed", "skipped"}
LogUrls == {"u1", "u2"}

\* job_data, by its status and URL
JobRecords == [ status : LogStatuses, job_url : LogUrls ]

\* lines 46-60 and 66-67: the content a call starts from; a file that is
\* absent or holds no valid JSON counts as empty
LoadLogs(file) ==
    IF file.kind = "json"
    THEN [ applications |-> file.applications, error_logs |-> file.error_logs ]
    ELSE [ applications |-> <<>>, error_logs |-> <<>> ]

\* A mutant of AddRecord: the record is put before the others.
AddRecordFirst(applications, job_data) == <<job_data>> \o applications

\* line 63: logs["applications"].append(job_data)
AddRecord(applications, job_data) == Append(applications, job_data)

logFrame == <<restVars, roundVars, safeVars, sessVars, fileVars, startVars, chatVars, pendVars, urlVars, lockVars>>

\* lines 41-86: one call
SaveJobLog ==
    /\ jl_run > 0
    /\ Len(jl_written) < MaxLogCalls
    /\ \E job_data \in JobRecords :
          LET logs == LoadLogs(jl_file)
          IN  /\ jl_file' = [ kind         |-> "json",
                              applications |-> AddRecord(logs.applications, job_data),
                              error_logs   |-> IF job_data.status = "failed"
                                               THEN Append(logs.error_logs,
                                                           job_data.job_url)
                                               ELSE logs.error_logs ]
              /\ jl_written' = Append(jl_written, job_data)
    /\ UNCHANGED jl_run
    /\ UNCHANGED logFrame

\* The process ends and is started again; the file stays.
JobLogRestart ==
    /\ jl_run > 0
    /\ jl_run < MaxRuns
    /\ jl_run' = jl_run + 1
    /\ UNCHANGED <<jl_file, jl_written>>
    /\ UNCHANGED logFrame

InitJobLog ==
    /\ ExtractIdle /\ PrefIdle /\ JobIdle /\ BatchIdle /\ MainIdle
    /\ AnswerIdle /\ RadioIdle /\ TextIdle /\ fetch_hist = <<>>
    /\ RoundIdle /\ SafeIdle /\ SessIdle /\ FileIdle /\ StartIdle /\ ChatIdle /\ PendIdle /\ UrlIdle /\ LockIdle
    /\ jl_file = NoLogFile
    /\ jl_written = <<>>
    /\ jl_run = 1

NextJobLog ==
    \/ SaveJobLog
    \/ JobLogRestart

SpecJobLog == InitJobLog /\ [][NextJobLog]_vars

MaxUrls == 11     \* URLs seen over all runs
MaxOnDisk == 3    \* URLs in the file before the first run

save_every == 10  \* line 69: if len(processed_jobs) % 10 == 0

WriteOutcomes == {"written", "open_failed", "dump_failed", "killed"}

\* lines 35-47: load_processed_jobs; a file that cannot be parsed gives set()
LoadProcessed(file) == IF file.kind = "json" THEN file.urls ELSE {}

\* lines 49-56: save_processed_jobs, open(file_path, 'w') and json.dump; the
\* exceptions are printed and swallowed
WriteFile(file, jobs_set, outcome) ==
    CASE outcome = "written"     -> [ kind |-> "json", urls |-> jobs_set ]
      [] outcome = "open_failed" -> file
      [] OTHER                   -> [ kind |-> "corrupt", urls |-> {} ]

\* line 69
FlushDue(jobs_set) == Cardinality(jobs_set) % save_every = 0

fileFrame == <<restVars, roundVars, safeVars, sessVars, logVars, startVars, chatVars, pendVars, urlVars, lockVars>>

\* line 410: processed_jobs = load_processed_jobs()
PjLoad ==
    /\ pj_pc = "start"
    /\ pj_set' = LoadProcessed(pj_file)
    /\ pj_pc' = "run"
    /\ UNCHANGED <<pj_file, pj_next, pj_hist>>
    /\ UNCHANGED fileFrame

\* lines 63-70: mark_job_processed with a URL that is not in the set
\* (process_job_batch skips the others, lines 82-84)
PjMark ==
    /\ pj_pc = "run"
    /\ pj_next <= MaxUrls
    /\ LET jobs_set == pj_set \cup {pj_next}
       IN  /\ pj_set' = jobs_set
           /\ pj_next' = pj_next + 1
           /\ IF FlushDue(jobs_set)
              THEN \E outcome \in WriteOutcomes :
                     /\ pj_file' = WriteFile(pj_file, jobs_set, outcome)
                     /\ IF outcome = "killed"
                        THEN /\ pj_pc' = "crashed"
                             /\ pj_hist' = [ inserted    |-> {},
                                             after_crash |-> TRUE,
                                             old         |-> LoadProcessed(pj_file),
                                             new         |-> jobs_set ]
                        ELSE /\ pj_pc' = "run"
                             /\ pj_hist' = [pj_hist EXCEPT !.inserted = @ \cup {pj_next}]
              ELSE /\ pj_hist' = [pj_hist EXCEPT !.inserted = @ \cup {pj_next}]
                   /\ UNCHANGED <<pj_file, pj_pc>>
    /\ UNCHANGED fileFrame

\* lines 629-630: main leaves its loop and saves the set
PjFinalSave ==
    /\ pj_pc = "run"
    /\ \E outcome \in WriteOutcomes :
          /\ pj_file' = WriteFile(pj_file, pj_set, outcome)
          /\ IF outcome = "killed"
             THEN /\ pj_pc' = "crashed"
                  /\ pj_hist' = [ inserted    |-> {},
                                  after_crash |-> TRUE,
                                  old         |-> LoadProcessed(pj_file),
                                  new         |-> pj_set ]
             ELSE /\ pj_pc' = "ended"
                  /\ UNCHANGED pj_hist
    /\ UNCHANGED <<pj_set, pj_next>>
    /\ UNCHANGED fileFrame

\* The process is started again.
PjRestart ==
    /\ pj_pc \in {"ended", "crashed"}
    /\ pj_pc' = "start"
    /\ pj_set' = {}
    /\ pj_hist' = IF pj_pc = "crashed"
                  THEN [pj_hist EXCEPT !.inserted = {}]
                  ELSE NoProcessedHistory
    /\ UNCHANGED <<pj_file, pj_next>>
    /\ UNCHANGED fileFrame

\* The first run finds no file, or one that earlier runs wrote.
InitProcessed ==
    /\ ExtractIdle /\ PrefIdle /\ JobIdle /\ BatchIdle /\ MainIdle
    /\ AnswerIdle /\ RadioIdle /\ TextIdle /\ fetch_hist = <<>>
    /\ RoundIdle /\ SafeIdle /\ SessIdle /\ LogIdle /\ StartIdle /\ ChatIdle /\ PendIdle /\ UrlIdle /\ LockIdle
    /\ pj_pc = "start"
    /\ \E n \in 0..MaxOnDisk :
          /\ pj_file \in {NoProcessedFile, [ kind |-> "json", urls |-> 1..n ]}
          /\ pj_next = n + 1
    /\ pj_set = {}
    /\ pj_hist = NoProcessedHistory

NextProcessed ==
    \/ PjLoad
    \/ PjMark
    \/ PjFinalSave
    \/ PjRestart

SpecProcessed == InitProcessed /\ [][NextProcessed]_vars

\* C27: after every call of mark_job_processed fewer than 10 of the URLs
\* inserted in the run are missing from the file, and when main has ended the
\* file holds the set in memory.
C27_FlushedEveryTen ==
    /\ pj_pc = "run" =>
          Cardinality(pj_hist.inserted \ LoadProcessed(pj_file)) < save_every
    /\ pj_pc = "ended" => LoadProcessed(pj_file) = pj_set

\* C28: the run after a process died while writing the file loads what the
\* file held before that write or what the write was writing.
C28_CrashKeepsOldOrNew ==
    (pj_pc = "run" /\ pj_hist.after_crash /\ pj_hist.inserted = {})
        => pj_set \in {pj_hist.old, pj_hist.new}

(***************************************************************************)
(* The start of the process (src/gemini_api.py:18-40, src/main.py:365-456) *)
(*                                                                         *)
(* main.py imports job_processor, which imports gemini_api: the module     *)
(* code of gemini_api runs before main().  Then main() up to its loop.     *)
(***************************************************************************)
ConfigFiles ==
    { c \in [ readable : BOOLEAN, gemini_api_key : BOOLEAN, job_search_url : BOOLEAN ] :
         ~c.readable => (~c.gemini_api_key /\ ~c.job_search_url) }

\* load_configuration (src/gemini_api.py:18-25, src/main.py:26-33): the
\* message it prints, if any; the dict returned is {} when the file cannot be
\* read
LoadMessages(file) == IF file.readable THEN <<>> ELSE <<"Error loading configuration">>

\* src/gemini_api.py:31-34: api_key is empty
NoApiKey(env_key, file) == ~env_key /\ ~file.gemini_api_key

startFrame == <<restVars, roundVars, safeVars, sessVars, logVars, fileVars, chatVars, pendVars, urlVars, lockVars>>

\* src/gemini_api.py:27-37, run by the import at src/job_processor.py:15
StImport ==
    /\ st_pc = "import"
    /\ IF NoApiKey(st_env_key, st_config)
       THEN /\ st_log' = st_log \o LoadMessages(st_config)
                               \o <<"WARNING: No Gemini API key found">>
            /\ st_pc' = "exited"
       ELSE /\ st_log' = st_log \o LoadMessages(st_config)
            /\ st_pc' = "config"
    /\ UNCHANGED <<st_config, st_env_key, st_sessions>>
    /\ UNCHANGED startFrame

\* src/main.py:369-370: config = load_configuration()
StConfig ==
    /\ st_pc = "config"
    /\ st_log' = st_log \o LoadMessages(st_config)
    /\ st_pc' = "resume"
    /\ UNCHANGED <<st_config, st_env_key, st_sessions>>
    /\ UNCHANGED startFrame

\* src/main.py:372-410: the resume data or its fallback, the log directories,
\* the processed jobs
StResume ==
    /\ st_pc = "resume"
    /\ \E loaded \in BOOLEAN :
          st_log' = Append(st_log, IF loaded THEN "Loaded resume data"
                                   ELSE "Created fallback resume data")
    /\ st_pc' = "browser"
    /\ UNCHANGED <<st_config, st_env_key, st_sessions>>
    /\ UNCHANGED startFrame

\* src/main.py:413-419: the first browser session
StBrowser ==
    /\ st_pc = "browser"
    /\ \E created \in BOOLEAN :
          IF created
          THEN /\ st_sessions' = st_sessions + 1
               /\ st_pc' = "navigate"
               /\ UNCHANGED st_log
          ELSE /\ st_log' = Append(st_log, "Failed to set up browser")
               /\ st_pc' = "returned"
               /\ UNCHANGED st_sessions
    /\ UNCHANGED <<st_config, st_env_key>>
    /\ UNCHANGED startFrame

\* src/main.py:421-433: driver.get(main_url); without job_search_url the URL
\* is None and the call raises
StNavigate ==
    /\ st_pc = "navigate"
    /\ \E reached \in BOOLEAN :
          IF reached /\ st_config.job_search_url
          THEN /\ st_pc' = "extract"
               /\ UNCHANGED st_log
          ELSE /\ st_log' = Append(st_log, "Error navigating to main URL")
               /\ st_pc' = "returned"
    /\ UNCHANGED <<st_config, st_env_key, st_sessions>>
    /\ UNCHANGED startFrame

\* src/main.py:435-456: the first listing, with one recovery in a new session
StExtract ==
    /\ st_pc = "extract"
    /\ \E extracted \in BOOLEAN, created \in BOOLEAN, recovered \in BOOLEAN :
          IF extracted
          THEN /\ st_pc' = "loop"
               /\ UNCHANGED <<st_log, st_sessions>>
          ELSE /\ st_sessions' = IF created THEN st_sessions + 1 ELSE st_sessions
               /\ IF created /\ recovered
                  THEN /\ st_pc' = "loop"
                       /\ st_log' = st_log \o <<"Error extracting initial job links",
                                                "Recovered session">>
                  ELSE /\ st_pc' = "returned"
                       /\ st_log' = st_log \o <<"Error extracting initial job links",
                                                "Failed to recover session">>
    /\ UNCHANGED <<st_config, st_env_key>>
    /\ UNCHANGED startFrame

InitStartup ==
    /\ ExtractIdle /\ PrefIdle /\ JobIdle /\ BatchIdle /\ MainIdle
    /\ AnswerIdle /\ RadioIdle /\ TextIdle /\ fetch_hist = <<>>
    /\ RoundIdle /\ SafeIdle /\ SessIdle /\ LogIdle /\ FileIdle /\ ChatIdle /\ PendIdle /\ UrlIdle /\ LockIdle
    /\ st_pc = "import"
    /\ st_config \in ConfigFiles
    /\ st_env_key \in BOOLEAN
    /\ st_sessions = 0
    /\ st_log = <<>>

NextStartup ==
    \/ StImport
    \/ StConfig
    \/ StResume
    \/ StBrowser
    \/ StNavigate
    \/ StExtract

SpecStartup == InitStartup /\ [][NextStartup]_vars

\* C29: when the configuration file cannot be read or no API key is there,
\* the process exits, with a message, before a browser session is started.
C29_ConfigErrorsAreFatal ==
    (~st_config.readable \/ NoApiKey(st_env_key, st_config)) =>
        /\ st_sessions = 0
        /\ st_pc # "loop"
        /\ st_pc \in {"exited", "returned"} => st_log # <<>>

(***************************************************************************)
(* bard_flash_response (src/gemini_api.py:78-183)                          *)
(*                                                                         *)
(* Calls one after the other, each attempt by attempt.  The environment    *)
(* chooses whether a request to a model succeeds and, when it raises,      *)
(* whether the text of the error holds "chat_session" or "history".        *)
(***************************************************************************)
MaxExchanges == 3        \* questions one chat session answers

bard_max_retries == 3    \* line 138: max_retries = 3

\* "empty" is a question that is None, empty or only whitespace (line 132).
ChatPrompts == {"classification", "question", "empty"}

\* lines 102-118: model.start_chat with the four opening messages
NewChat == [ live |-> TRUE, exchanges |-> 0 ]

\* line 158: chat_session.send_message(question) has returned
Sent(session) == [ session EXCEPT !.exchanges = @ + 1 ]

\* lines 163-180: an attempt has raised; names_session says that the text of
\* the error holds "chat_session" or "history"
AfterError(session, count, names_session) ==
    IF count + 1 < bard_max_retries /\ names_session THEN NoChat ELSE session

chatFrame == <<restVars, roundVars, safeVars, sessVars, logVars, fileVars, startVars, pendVars, urlVars, lockVars>>

\* A mutant of BardDefault: "1" whatever the error says.
BardDefaultOne(names_options) == "1"

\* lines 177-180: what is returned after the last attempt has raised
BardDefault(names_options) == IF names_options THEN "1" ELSE "Yes"

\* lines 128-140: a call begins; an empty question is answered "Yes" at once
ChatBegin ==
    /\ c_pc = "idle"
    /\ \E kind \in ChatPrompts :
          /\ c_kind' = kind
          /\ IF kind = "empty"
             THEN /\ c_pc' = "idle"
                  /\ c_hist' = [c_hist EXCEPT !.before = chat_session,
                                              !.kind = kind,
                                              !.answered = "empty",
                                              !.failures = 0,
                                              !.requests = 0,
                                              !.result = "Yes",
                                              !.options = FALSE]
             ELSE /\ c_pc' = "attempt"
                  /\ c_hist' = [c_hist EXCEPT !.before = chat_session,
                                              !.requests = 0]
    /\ bard_retry_count' = 0
    /\ UNCHANGED chat_session
    /\ UNCHANGED chatFrame

\* The call returns, after one more request to a model.
ChatReturned(answered, failures, result, names_options) ==
    /\ c_pc' = "idle"
    /\ c_hist' = [c_hist EXCEPT !.kind = c_kind,
                                !.answered = answered,
                                !.failures = failures,
                                !.requests = @ + 1,
                                !.result = result,
                                !.options = names_options]
    /\ UNCHANGED <<c_kind, bard_retry_count>>

\* lines 163-183: the except clause of an attempt, whose request has raised,
\* that left session behind
ChatFailed(session) ==
    \E names_session \in BOOLEAN, names_options \in BOOLEAN :
       /\ chat_session' = AfterError(session, bard_retry_count, names_session)
       /\ IF bard_retry_count + 1 < bard_max_retries
          THEN /\ bard_retry_count' = bard_retry_count + 1
               /\ c_hist' = [c_hist EXCEPT !.requests = @ + 1]
               /\ UNCHANGED <<c_pc, c_kind>>
          ELSE ChatReturned("default", bard_retry_count + 1,
                            BardDefault(names_options), names_options)

\* lines 140-161: one attempt
ChatAttempt ==
    /\ c_pc = "attempt"
    /\ IF c_kind = "classification"
       THEN \* lines 143-146: preference_model.generate_content(question)
            \/ /\ ChatReturned("classifier", bard_retry_count, "reply", FALSE)
               /\ UNCHANGED chat_session
            \/ ChatFailed(chat_session)
       ELSE IF ~chat_session.live
       THEN \* lines 149-156: initialize_chat_session()
            \E started \in BOOLEAN :
               IF started
               THEN \/ /\ chat_session' = Sent(NewChat)
                       /\ ChatReturned("chat", bard_retry_count, "reply", FALSE)
                    \/ ChatFailed(NewChat)
               ELSE \/ /\ ChatReturned("direct", bard_retry_count, "reply", FALSE)
                       /\ UNCHANGED chat_session
                    \/ ChatFailed(chat_session)
       ELSE \* lines 158-159
            \/ /\ chat_session.exchanges < MaxExchanges
               /\ chat_session' = Sent(chat_session)
               /\ ChatReturned("chat", bard_retry_count, "reply", FALSE)
            \/ ChatFailed(chat_session)
    /\ UNCHANGED chatFrame

\* line 79: chat_session = None when the module is loaded
InitChat ==
    /\ ExtractIdle /\ PrefIdle /\ JobIdle /\ BatchIdle /\ MainIdle
    /\ AnswerIdle /\ RadioIdle /\ TextIdle /\ fetch_hist = <<>>
    /\ RoundIdle /\ SafeIdle /\ SessIdle /\ LogIdle /\ FileIdle /\ StartIdle /\ PendIdle /\ UrlIdle /\ LockIdle
    /\ c_pc = "idle"
    /\ chat_session = NoChat
    /\ c_kind = "none"
    /\ bard_retry_count = 0
    /\ c_hist = NoChatHistory

NextChat ==
    \/ ChatBegin
    \/ ChatAttempt

SpecChat == InitChat /\ [][NextChat]_vars

\* C30: a call that has returned has made the conversation one exchange
\* longer when its question was answered by the model and was no
\* classification, and has left the conversation as it was when it was a
\* classification, failed or not.
C30_ChatGrowsByAnsweredQuestions ==
    (c_pc = "idle" /\ c_hist.kind # "none") =>
        /\ c_hist.kind = "classification" => chat_session = c_hist.before
        /\ (c_hist.kind = "question" /\ c_hist.answered \in {"chat", "direct"}) =>
              /\ chat_session.live
              /\ chat_session.exchanges = c_hist.before.exchanges + 1

\* C35: a call of bard_flash_response that has returned has returned a text:
\* "Yes" without any request to a model when the question was empty; the
\* model's reply, the first that did not raise, after at most 3 requests;
\* after 3 requests that raised, "1" when the last error names multiple choice
\* or options and "Yes" otherwise.  No call makes more than 3 requests.
C35_AlwaysAnAnswer ==
    /\ bard_retry_count < bard_max_retries
    /\ c_hist.requests <= 3
    /\ (c_pc = "idle" /\ c_hist.kind # "none") =>
          /\ c_hist.result \in {"reply", "Yes", "1"}
          /\ c_hist.kind = "empty" =>
                (c_hist.result = "Yes" /\ c_hist.requests = 0)
          /\ c_hist.answered \in {"chat", "direct", "classifier"} =>
                /\ c_hist.result = "reply"
                /\ c_hist.requests = c_hist.failures + 1
                /\ c_hist.failures < 3
          /\ c_hist.answered = "default" =>
                /\ c_hist.failures = 3
                /\ c_hist.requests = 3
                /\ c_hist.result = (IF c_hist.options THEN "1" ELSE "Yes")

\* Three requests have raised, the last with an error that names no options,
\* and "Yes" was returned.
C35_Witness ==
    /\ c_pc = "idle"
    /\ c_hist.answered = "default"
    /\ c_hist.failures = 3
    /\ ~c_hist.options
    /\ c_hist.result = "Yes"

(***************************************************************************)
(* Further claims about process_job (checked under SpecBatch)              *)
(***************************************************************************)

\* The statuses of the records the call has appended to the applications log.
RecordStatuses == { j_records[i].status : i \in DOMAIN j_records }

\* C31: in the company-site branch a record of status external_site_matched
\* or external_site_visited is written only after the preference check has
\* run and written its preference-match record, and neither the Apply click
\* nor the question loop is entered.
C31_ExternalBranchChecksFirst ==
    hist.external =>
        /\ (RecordStatuses \cap {"external_site_matched", "external_site_visited"} # {})
              => hist.pref_outcome \in {"true", "false"}
        /\ ~hist.apply_attempted
        /\ ~hist.apply_clicked
        /\ ~hist.handler_called

\* C37: the Apply control is clicked, and the handlers of the question loop
\* run, only after a positive decision of the preference check.
C37_ApplyOnlyAfterPositiveDecision ==
    (hist.apply_clicked \/ hist.handler_called) => hist.pref_outcome = "true"

\* C38: process_job returns True only when it has written a record of status
\* success to the applications log during the call.
C38_SuccessHasSuccessRecord ==
    (j_pc = "returned" /\ j_result) => "success" \in RecordStatuses

(***************************************************************************)
(* Further claims about process_job_batch (checked under SpecBatch)        *)
(***************************************************************************)

\* C33: the processed set never loses a URL; a job the batch loop has gone
\* past, after process_job returned or after the navigation raised (or
\* because it was processed before), is in the processed set; and when
\* process_job_batch has returned every URL process_job was called with is in
\* the set.
C33_AttemptedJobsAreMarked ==
    /\ [](b_pc = "returned" => Range(batch_hist.calls) \subseteq processed_jobs)
    /\ [][/\ processed_jobs \subseteq processed_jobs'
          /\ (b_pc = "job" /\ b_pc' # "job") => CurrentJob \in processed_jobs'
          /\ (b_pc = "loop" /\ batch_i' = batch_i + 1) =>
                CurrentJob \in processed_jobs']_vars

\* A batch of two: the navigation to the first job raised, process_job was
\* called with the second, and both are in the processed set.
C33_Witness ==
    /\ b_pc = "returned"
    /\ batch_hist.calls = <<JobB>>
    /\ job_batch = <<JobA, JobB>>
    /\ {JobA, JobB} \subseteq processed_jobs

(***************************************************************************)
(* Further claims about main's loop (checked under SpecRounds)             *)
(***************************************************************************)

\* C39: the successful applications main has accumulated never exceed
\* max_applications.
C39_TotalWithinTarget ==
    successful_applications <= max_applications

\* C32: every way main ends, once its loop has begun, goes through the cleanup
\* of lines 629-640 (the processed set saved, the summary written, the browser
\* closed): main is at "done", from where those lines run, and never left by
\* an error that skips them.
C32_EveryEndCleansUp ==
    RoundsOver => m_pc = "done"

(***************************************************************************)
(* main's loop (src/main.py:459-627) with the URLs named: which URLs are   *)
(* pending, which the searches with another experience value found, which  *)
(* process_job was called with.  process_taken_jobs is taken by its result, *)
(* is_search_stuck by its answer (it is modelled with the fingerprints     *)
(* under SpecStuck), the session check of lines 474-487 is left out.       *)
(***************************************************************************)
\* What extract_job_links can return for a search page.
NamedListings ==
    {<<>>, <<JobA>>, <<JobB>>, <<JobC>>, <<JobD>>, <<JobA, JobB, JobC>>}

\* What one job of a batch can come to: process_job returned True or False,
\* or driver.get(job_url) raised and process_job was not called (line 89,
\* except at 121).
BatchJobOutcomes == {"success", "failed", "navigation_error"}

\* [url for url in links if not is_job_processed(url)]: lines 459, 528, 555, 613
UnprocessedOf(links, processed) ==
    SelectSeq(links, LAMBDA url : url \notin processed)

\* successful_applications of process_taken_jobs after the first n jobs
SuccessesIn(outcomes, n) ==
    Cardinality({ i \in 1..n : outcomes[i] = "success" })

\* lines 72-131: the outcomes a batch of the given jobs can have: the loop goes
\* on to the next job until the batch's own count reaches max_applications
BatchRuns(jobs) ==
    { outcomes \in UNION { [1..n -> BatchJobOutcomes] : n \in 1..Len(jobs) } :
         /\ \A m \in 1..(Len(outcomes) - 1) :
               SuccessesIn(outcomes, m) < u_config.max_applications
         /\ \/ Len(outcomes) = Len(jobs)
            \/ SuccessesIn(outcomes, Len(outcomes)) >= u_config.max_applications }

\* line 466
u_max_refresh_attempts == u_config.max_retries * 5

\* line 625
PendingAfter ==
    IF u_unprocessed = <<>> /\ u_refresh_count >= u_max_refresh_attempts
    THEN "done" ELSE "head"

pendFrame == <<restVars, roundVars, safeVars, sessVars, logVars, fileVars, startVars,
               chatVars, urlVars, lockVars>>

\* lines 472 and 490: the loop's condition; is there a job to process
PendingHead ==
    /\ u_pc = "head"
    /\ u_pc' = IF u_successful >= u_config.max_applications THEN "done"
               ELSE IF u_unprocessed # <<>> THEN "batch" ELSE "fetch"
    /\ UNCHANGED <<u_config, u_unprocessed, u_processed, u_successful, u_page,
                   u_stuck_count, u_refresh_count, u_hist>>
    /\ UNCHANGED pendFrame

\* lines 490-507 with process_taken_jobs (lines 72-131): the first jobs of the
\* list are taken; every job the batch came to is marked processed; the whole
\* batch is taken off the list
PendingBatch ==
    /\ u_pc = "batch"
    /\ LET taken_jobs == FirstBatch(u_unprocessed)
       IN  \E outcomes \in BatchRuns(taken_jobs) :
              LET n == Len(outcomes)
              IN
              /\ u_processed' = u_processed \cup { taken_jobs[i] : i \in 1..n }
              /\ u_hist' = [u_hist EXCEPT !.calls =
                               @ \cup { taken_jobs[i] : i \in
                                          { k \in 1..n :
                                              outcomes[k] # "navigation_error" } }]
              /\ u_successful' = u_successful + SuccessesIn(outcomes, n)
              /\ u_unprocessed' = SubSeq(u_unprocessed, Len(taken_jobs) + 1,
                                         Len(u_unprocessed))
              /\ u_pc' = IF u_successful' >= u_config.max_applications
                         THEN "done" ELSE "fetch"
    /\ UNCHANGED <<u_config, u_page, u_stuck_count, u_refresh_count>>
    /\ UNCHANGED pendFrame

\* lines 509-567 and 592: no job is left: the next page is fetched; after page
\* 4, when it brings nothing, the search is made with another experience value
\* and what it finds becomes the list (line 567)
PendingNextPage ==
    /\ u_pc = "fetch"
    /\ u_unprocessed = <<>>
    /\ u_page' = u_page + 1
    /\ IF u_page + 1 > max_page_to_try
       THEN /\ u_pc' = "done"
            /\ UNCHANGED <<u_unprocessed, u_refresh_count, u_hist>>
       ELSE \E new_job_links \in NamedListings :
              LET new_unprocessed_jobs == UnprocessedOf(new_job_links, u_processed)
              IN
              IF new_unprocessed_jobs = <<>> /\ u_page + 1 < max_page_to_try
              THEN \* line 538: continue
                   /\ u_pc' = "head"
                   /\ UNCHANGED <<u_unprocessed, u_refresh_count, u_hist>>
              ELSE IF /\ new_unprocessed_jobs = <<>>
                      /\ u_page + 1 > 4
                      /\ u_config.experience
              THEN \E session_error \in BOOLEAN, modified_links \in NamedListings :
                      LET modified_unprocessed ==
                             UnprocessedOf(modified_links, u_processed)
                      IN
                      IF session_error
                      THEN \* lines 561-564
                           /\ u_pc' = "head"
                           /\ UNCHANGED <<u_unprocessed, u_refresh_count, u_hist>>
                      ELSE IF modified_unprocessed = <<>>
                      THEN \* line 559: break
                           /\ u_pc' = "done"
                           /\ UNCHANGED <<u_unprocessed, u_refresh_count, u_hist>>
                      ELSE /\ u_unprocessed' = modified_unprocessed
                           /\ u_hist' = [u_hist EXCEPT !.found =
                                            @ \cup Range(modified_unprocessed)]
                           /\ u_refresh_count' = u_refresh_count + 1
                           /\ u_pc' = "stuck"
              ELSE /\ u_unprocessed' = new_unprocessed_jobs
                   /\ u_refresh_count' = u_refresh_count + 1
                   /\ u_pc' = "stuck"
                   /\ UNCHANGED u_hist
    /\ UNCHANGED <<u_config, u_processed, u_successful, u_stuck_count>>
    /\ UNCHANGED pendFrame

\* lines 569-592: jobs are left: when the refresh counter is a multiple of 3
\* more are fetched from the page after the current one and joined to the list
PendingPeriodicRefresh ==
    /\ u_pc = "fetch"
    /\ u_unprocessed # <<>>
    /\ IF PeriodicDue(u_refresh_count)
       THEN /\ u_refresh_count' = u_refresh_count + 2
            /\ IF PageWithinCeiling(u_page + 1)
               THEN \E new_job_links \in NamedListings :
                      LET new_unprocessed_jobs ==
                             UnprocessedOf(new_job_links, u_processed)
                      IN
                      IF new_unprocessed_jobs # <<>>
                      THEN /\ u_page' = u_page + 1
                           /\ u_unprocessed' \in
                                 Deduplicated(u_unprocessed \o new_unprocessed_jobs)
                      ELSE UNCHANGED <<u_page, u_unprocessed>>
               ELSE UNCHANGED <<u_page, u_unprocessed>>
       ELSE /\ u_refresh_count' = u_refresh_count + 1
            /\ UNCHANGED <<u_page, u_unprocessed>>
    /\ u_pc' = "stuck"
    /\ UNCHANGED <<u_config, u_processed, u_successful, u_stuck_count, u_hist>>
    /\ UNCHANGED pendFrame

\* lines 594-627: the stuck check and the end of the round.  At the third
\* stuck round the search is made with another experience value (lines
\* 601-622): what it finds is counted and printed, the loop is left when it is
\* nothing; unprocessed_jobs is not assigned.  The driver calls of lines
\* 608-612 stand in no try.
PendingStuckCheck ==
    /\ u_pc = "stuck"
    /\ \E search_stuck \in BOOLEAN :
          IF search_stuck
          THEN IF u_stuck_count + 1 >= 3 /\ u_config.experience
               THEN \E driver_error \in BOOLEAN, modified_links \in NamedListings :
                       LET new_unprocessed_jobs ==
                              UnprocessedOf(modified_links, u_processed)
                       IN
                       IF driver_error
                       THEN /\ u_pc' = "crashed"
                            /\ u_stuck_count' = u_stuck_count + 1
                            /\ UNCHANGED u_hist
                       ELSE /\ u_stuck_count' = 0
                            /\ u_hist' = [u_hist EXCEPT !.found =
                                             @ \cup Range(new_unprocessed_jobs)]
                            /\ u_pc' = IF new_unprocessed_jobs = <<>>
                                       THEN "done" ELSE PendingAfter
               ELSE /\ u_stuck_count' = u_stuck_count + 1
                    /\ u_pc' = PendingAfter
                    /\ UNCHANGED u_hist
          ELSE /\ u_pc' = PendingAfter
               /\ UNCHANGED <<u_stuck_count, u_hist>>
    /\ UNCHANGED <<u_config, u_unprocessed, u_processed, u_successful, u_page,
                   u_refresh_count>>
    /\ UNCHANGED pendFrame

\* lines 410 and 459-470: the processed set is loaded, the first listing
\* filtered, the counters set
InitPending ==
    /\ ExtractIdle /\ PrefIdle /\ JobIdle /\ BatchIdle /\ MainIdle
    /\ AnswerIdle /\ RadioIdle /\ TextIdle /\ fetch_hist = <<>>
    /\ RoundIdle /\ SafeIdle /\ SessIdle /\ LogIdle /\ FileIdle /\ StartIdle /\ ChatIdle /\ UrlIdle /\ LockIdle
    /\ u_pc = "head"
    /\ u_config \in [max_applications : 1..MaxTarget,
                     max_retries : 0..MaxConfigRetries,
                     experience : BOOLEAN]
    /\ u_processed \in SUBSET {JobA}
    /\ \E first_links \in NamedListings :
          u_unprocessed = UnprocessedOf(first_links, u_processed)
    /\ u_successful = 0
    /\ u_page = 1
    /\ u_stuck_count = 0
    /\ u_refresh_count = 0
    /\ u_hist = NoPendingHistory

NextPending ==
    \/ PendingHead
    \/ PendingBatch
    \/ PendingNextPage
    \/ PendingPeriodicRefresh
    \/ PendingStuckCheck

SpecPending == InitPending /\ [][NextPending]_vars

\* main is one thread: the loop does not stop between two steps.
SpecPendingFair == SpecPending /\ WF_vars(NextPending)

(***************************************************************************)
(* Claims about the pending jobs (checked under SpecPendingFair)           *)
(***************************************************************************)

\* C40: the unprocessed URLs a search with another experience value returned
\* are pending (until a batch takes them), and each is in the end passed to
\* process_job unless the target is reached before.
C40_FoundJobsGetProcessed ==
    /\ [](\A url \in u_hist.found :
             \/ url \in Range(u_unprocessed)
             \/ url \in u_processed
             \/ u_successful >= u_config.max_applications)
    /\ \A url \in {JobA, JobB, JobC, JobD} :
          (url \in u_hist.found) ~>
             (url \in u_hist.calls \/ u_successful >= u_config.max_applications)

(***************************************************************************)
(* refresh_job_listings (src/main.py:233-285): the URL it navigates to     *)
(*                                                                         *)
(* A URL is a sequence of characters; "jobs" and "x" stand for words of    *)
(* letters that hold none of '/', '?' and '-'.                             *)
(***************************************************************************)
MaxUrlLen == 6     \* characters of the configured search URL
MaxPage == 3       \* the largest page number asked for

UrlChars == {"/", "?", "-", "jobs", "x", "2"}

\* str(page_number), for the page numbers drawn
PageText(n) == << <<"1", "2", "3", "4">>[n] >>

\* s.split(sep): the pieces of s between the separators
RECURSIVE Split(_, _)
Split(s, sep) ==
    IF \A i \in DOMAIN s : s[i] # sep THEN <<s>>
    ELSE LET k == CHOOSE i \in DOMAIN s :
                     s[i] = sep /\ \A j \in 1..(i - 1) : s[j] # sep
         IN  <<SubSeq(s, 1, k - 1)>> \o Split(SubSeq(s, k + 1, Len(s)), sep)

\* sep.join(parts)
RECURSIVE Join(_, _)
Join(parts, sep) ==
    IF parts = <<>> THEN <<>>
    ELSE IF Len(parts) = 1 THEN parts[1]
    ELSE parts[1] \o <<sep>> \o Join(Tail(parts), sep)

\* parts[:-1]
AllButLast(parts) == SubSeq(parts, 1, Len(parts) - 1)

\* s.isdigit()
IsDigit(s) == s # <<>> /\ \A i \in DOMAIN s : s[i] \in Digits

\* "-jobs" in job_path
HoldsJobs(job_path) ==
    \E i \in 1..(Len(job_path) - 1) : job_path[i] = "-" /\ job_path[i + 1] = "jobs"

\* lines 237-267: url_with_page
UrlWithPage(url, n) ==
    LET base_url_parts == Split(url, "?")
        base_url == base_url_parts[1]
        query_params == IF Len(base_url_parts) > 1 THEN base_url_parts[2] ELSE <<>>
        url_parts == Split(base_url, "/")
        job_path == url_parts[Len(url_parts)]
        job_parts == Split(job_path, "-")
        job_type_base == Join(AllButLast(job_parts), "-")
        paged ==
            IF HoldsJobs(job_path)
            THEN IF IsDigit(job_parts[Len(job_parts)])
                 THEN Join(AllButLast(url_parts), "/") \o <<"/">> \o job_type_base
                         \o <<"-">> \o PageText(n)
                 ELSE base_url \o <<"-">> \o PageText(n)
            ELSE base_url \o <<"-">> \o PageText(n)
    IN  IF query_params # <<>> THEN paged \o <<"?">> \o query_params ELSE paged

\* lines 235-281: the URL refresh_job_listings hands to navigate_to_url_safely
PageUrl(url, n) == IF n # 0 /\ n > 1 THEN UrlWithPage(url, n) ELSE url

urlFrame == <<restVars, roundVars, safeVars, sessVars, logVars, fileVars, startVars,
              chatVars, pendVars, lockVars>>

\* One call of refresh_job_listings(driver, config, page_number)
RefreshNavigate ==
    /\ n_pc \in {"idle", "navigated"}
    /\ \E n \in 0..MaxPage :
          /\ page_number' = n
          /\ navigated_url' = PageUrl(main_url, n)
    /\ n_pc' = "navigated"
    /\ UNCHANGED main_url
    /\ UNCHANGED urlFrame

InitPageUrl ==
    /\ ExtractIdle /\ PrefIdle /\ JobIdle /\ BatchIdle /\ MainIdle
    /\ AnswerIdle /\ RadioIdle /\ TextIdle /\ fetch_hist = <<>>
    /\ RoundIdle /\ SafeIdle /\ SessIdle /\ LogIdle /\ FileIdle /\ StartIdle /\ ChatIdle /\ LockIdle
    /\ PendIdle
    /\ n_pc = "idle"
    /\ main_url \in SeqsUpTo(UrlChars, MaxUrlLen)
    /\ page_number = 0
    /\ navigated_url = <<>>

NextPageUrl == RefreshNavigate

SpecPageUrl == InitPageUrl /\ [][NextPageUrl]_vars

\* The URL up to its first '?', and what follows that '?'.
BeforeQuery(url) == Split(url, "?")[1]
AfterQuery(url) == SubSeq(url, Len(BeforeQuery(url)) + 2, Len(url))

\* The characters of the path's last segment that come before a closing
\* '-<digits>', all of them when it closes with none.
WithoutPageSuffix(path) ==
    LET segment == Split(path, "/")[Len(Split(path, "/"))]
        pieces == Split(segment, "-")
    IN  IF Len(pieces) > 1 /\ IsDigit(pieces[Len(pieces)])
        THEN SubSeq(path, 1, Len(path) - Len(pieces[Len(pieces)]) - 1)
        ELSE path

\* C34: for a page number n >= 2 refresh_job_listings navigates to the search
\* URL with the closing '-<digits>' of its last path segment replaced by '-n',
\* or with '-n' added when there is none, the query string kept after '?'; for
\* page 1 or none it navigates to the URL as it is.
C34_PageUrl ==
    n_pc = "navigated" =>
        navigated_url =
            IF page_number >= 2
            THEN WithoutPageSuffix(BeforeQuery(main_url)) \o <<"-">>
                    \o PageText(page_number)
                    \o (IF AfterQuery(main_url) # <<>>
                        THEN <<"?">> \o AfterQuery(main_url) ELSE <<>>)
            ELSE main_url

(***************************************************************************)
(* processed_jobs and processed_jobs_lock (src/main.py:22-70, 410, 630)    *)
(*                                                                         *)
(* The accesses main makes to the set, step by step: the lock taken, the   *)
(* set read or written, the lock given back.  URLs are numbers; a kill of  *)
(* the process during a write is looked at under SpecProcessed.            *)
(***************************************************************************)
lockFrame == <<restVars, roundVars, safeVars, sessVars, logVars, fileVars, startVars,
               chatVars, pendVars, urlVars>>

\* An access to the set is written down with what the lock is at that moment.
Accessed(kind) == k_hist \cup {[kind |-> kind, held |-> k_lock = "main"]}

\* line 410: processed_jobs = load_processed_jobs()
LockLoad ==
    /\ k_pc = "start"
    /\ k_set' = LoadProcessed(k_file)
    /\ k_hist' = Accessed("reload")
    /\ k_pc' = "loop"
    /\ UNCHANGED <<k_lock, k_file, k_next>>
    /\ UNCHANGED lockFrame

\* lines 60 and 65: with processed_jobs_lock, in is_job_processed and in
\* mark_job_processed
LockAcquire ==
    /\ k_pc = "loop"
    /\ k_lock = "none"
    /\ k_lock' = "main"
    /\ \/ k_pc' = "test"
       \/ k_next <= MaxUrls /\ k_pc' = "mark"
    /\ UNCHANGED <<k_set, k_file, k_next, k_hist>>
    /\ UNCHANGED lockFrame

\* line 61: return job_url in processed_jobs
LockTest ==
    /\ k_pc = "test"
    /\ k_hist' = Accessed("membership")
    /\ k_pc' = "exit"
    /\ UNCHANGED <<k_lock, k_set, k_file, k_next>>
    /\ UNCHANGED lockFrame

\* lines 66-69: processed_jobs.add(job_url) and the test of the size
LockInsert ==
    /\ k_pc = "mark"
    /\ k_set' = mark_job_processed(k_set, k_next)
    /\ k_next' = k_next + 1
    /\ k_hist' = Accessed("insertion")
    /\ k_pc' = IF FlushDue(k_set') THEN "flush" ELSE "exit"
    /\ UNCHANGED <<k_lock, k_file>>
    /\ UNCHANGED lockFrame

\* line 70: save_processed_jobs(processed_jobs)
LockFlush ==
    /\ k_pc = "flush"
    /\ \E outcome \in WriteOutcomes \ {"killed"} :
          k_file' = WriteFile(k_file, k_set, outcome)
    /\ k_hist' = Accessed("flush")
    /\ k_pc' = "exit"
    /\ UNCHANGED <<k_lock, k_set, k_next>>
    /\ UNCHANGED lockFrame

\* the end of the with statement
LockRelease ==
    /\ k_pc = "exit"
    /\ k_lock' = "none"
    /\ k_pc' = "loop"
    /\ UNCHANGED <<k_set, k_file, k_next, k_hist>>
    /\ UNCHANGED lockFrame

\* line 630: save_processed_jobs(processed_jobs), after the loop
LockFinalSave ==
    /\ k_pc = "loop"
    /\ \E outcome \in WriteOutcomes \ {"killed"} :
          k_file' = WriteFile(k_file, k_set, outcome)
    /\ k_hist' = Accessed("final_save")
    /\ k_pc' = "ended"
    /\ UNCHANGED <<k_lock, k_set, k_next>>
    /\ UNCHANGED lockFrame

\* lines 22-23: the lock is free, the set empty; the file is what earlier runs
\* left
InitLock ==
    /\ ExtractIdle /\ PrefIdle /\ JobIdle /\ BatchIdle /\ MainIdle
    /\ AnswerIdle /\ RadioIdle /\ TextIdle /\ fetch_hist = <<>>
    /\ RoundIdle /\ SafeIdle /\ SessIdle /\ LogIdle /\ FileIdle /\ StartIdle /\ ChatIdle
    /\ PendIdle /\ UrlIdle
    /\ k_pc = "start"
    /\ k_lock = "none"
    /\ k_set = {}
    /\ \E n \in 0..MaxOnDisk :
          /\ k_file \in {NoProcessedFile, [ kind |-> "json", urls |-> 1..n ]}
          /\ k_next = n + 1
    /\ k_hist = {}

NextLock ==
    \/ LockLoad
    \/ LockAcquire
    \/ LockTest
    \/ LockInsert
    \/ LockFlush
    \/ LockRelease
    \/ LockFinalSave

SpecLock == InitLock /\ [][NextLock]_vars

\* C36: every access to the processed set (the reload at startup, a
\* membership test, an insertion, a flush, the final save) is made with
\* processed_jobs_lock held.
C36_AccessesHoldLock ==
    \A access \in k_hist : access.held

====
